---- MODULE Spec2Model ----
(***************************************************************************)
(* A model of the metamaya-printer layout engine (src/lib/index.js).       *)
(*                                                                         *)
(* Text is a sequence of one-character strings.  The sink is the log of    *)
(* the write calls it received; every write is kept as a chunk that also   *)
(* remembers which statement of the printer issued it.  A thrown           *)
(* exception is the field err of the printer record: every step of a       *)
(* handler is skipped once err is set, and what was done before stays.     *)
(***************************************************************************)
EXTENDS Integers, Sequences, FiniteSets

(* ---- bounds of the model ------------------------------------------- *)

\* number of public calls in one run
MaxOps == 3

\* number of composite values (arrays, mappings) in the caller's heap
MaxNodes == 2

\* total number of elements / members over all composites of the heap
MaxEdges == 3

\* number of top-level model calls in one run of the value-graph specification
MaxCalls == 2

\* number of print / println / br calls in one run of the format specification
MaxFormats == 2

\* number of public calls in one run of the older printer
MaxOldOps == 3

\* number of model calls in one run of the value specification
MaxValueCalls == 2

\* number of public calls in one run of the sink specification
MaxSinkOps == 2

\* the most chunks a failing sink accepts before its write throws
MaxWrites == 4

\* the most steps of one print call that are followed
MaxPasses == 8

(* ---- program constants ---------------------------------------------- *)

DefaultIndentSize == 2
DefaultBreakLimit == 78
MinRuleLength == 8

VARIABLES
  opts,        \* this.options, fixed at construction
  heap,        \* the composite values the caller holds; identity = index
  out,         \* the sink: the sequence of chunks written to this.out
  lineLength,  \* this.lineLength
  block,       \* the chain this.block, this.block.parent, ...; root first
  seen,        \* this.seen: identity -> placeholder (<<>> when absent)
  last,        \* the last public call: its name, arguments and outcome
  nops,        \* number of public calls made so far
  sink,        \* this.out itself: whether and when its write throws
  old,         \* the printer of the older variant (src/unnamed/part_001)
  oldLast      \* the last public call made on the older printer

vars ==
  <<opts, heap, out, lineLength, block, seen, last, nops, sink, old, oldLast>>

(* ---- text ----------------------------------------------------------- *)

SP == " "

Spaces(n) == [i \in 1..n |-> SP]

RECURSIVE trimLeftFrom(_, _)
trimLeftFrom(str, i) ==
  IF i <= Len(str) /\ str[i] = SP THEN trimLeftFrom(str, i + 1) ELSE i

\* the spaces at the left end are dropped
trimLeft(str) ==
  LET i == trimLeftFrom(str, 1) IN SubSeq(str, i, Len(str))

RECURSIVE trimRightFrom(_, _)
trimRightFrom(str, i) ==
  \* i is the 1-based index examined; 0 is str[-1], which is undefined
  IF i >= 1 /\ str[i] = SP THEN trimRightFrom(str, i - 1) ELSE i

\* the spaces at the right end are dropped
trimRight(str) ==
  LET i == trimRightFrom(str, Len(str)) IN SubSeq(str, 1, i)

RECURSIVE Flatten(_)
Flatten(ss) == IF ss = <<>> THEN <<>> ELSE Head(ss) \o Flatten(Tail(ss))

TxUndefined == <<"u","n","d","e","f","i","n","e","d">>
TxNull == <<"n","u","l","l">>
TxCircArray == <<"@","c","i","r","c","u","l","a","r","[","a","r","r","a","y","]">>
TxCircObject == <<"@","c","i","r","c","u","l","a","r","[","o","b","j","e","c","t","]">>
TxAnonymous == <<"<","a","n","o","n","y","m","o","u","s","-","f","u","n","c","t","i","o","n",">">>
TxObjectObject == <<"[","o","b","j","e","c","t"," ","O","b","j","e","c","t","]">>
TxNaN == <<"N","a","N">>
TxClosure == <<"@","c","l","o","s","u","r","e">>
TxWrapper == <<"W","r","a","p","p","e","r">>
TxClosureName == <<"C","l","o","s","u","r","e">>
TxCustom == <<"C","u","s","t","o","m">>

(* ---- tokens --------------------------------------------------------- *)

\* a plain string token
Str(s) == [tag |-> "str", value |-> s, hasBreak |-> FALSE, breakValue |-> <<>>]
\* a formatter object { value: v }
Obj(v) == [tag |-> "obj", value |-> v, hasBreak |-> FALSE, breakValue |-> <<>>]
\* a formatter object { value: v, breakValue: b }
ObjB(v, b) == [tag |-> "obj", value |-> v, hasBreak |-> TRUE, breakValue |-> b]
\* the value undefined passed where a token is expected
Undef == [tag |-> "undef", value |-> <<>>, hasBreak |-> FALSE, breakValue |-> <<>>]

(* ---- the sink -------------------------------------------------------- *)

\* this.out.write(' '.repeat(n)) of _emit
IndentChunk(n, d) ==
  [kind |-> "ind", text |-> Spaces(n), style |-> "none", depth |-> d, len |-> 0]
\* this.out.write(value) of _emit; d is the depth of the current block and
\* len the length of the token before its spaces were trimmed
TokChunk(v, sty, d, len) ==
  [kind |-> "tok", text |-> v, style |-> sty, depth |-> d, len |-> len]
\* this.out.write(this.options.lineBreak)
BreakChunk ==
  [kind |-> "brk", text |-> <<"\n">>, style |-> "none", depth |-> 0, len |-> 0]

(* ---- the printer ------------------------------------------------------ *)

RootBlock(depth) ==
  [open |-> Undef, close |-> Undef, separator |-> Undef,
   terminator |-> Str(<<";">>), afterLast |-> Undef,
   empty |-> FALSE, depth |-> depth]

NoSeen == [n \in 1..Len(heap) |-> <<>>]

\* the printer a handler works on
This ==
  [out |-> out, lineLength |-> lineLength, block |-> block, seen |-> seen,
   colors |-> opts.colors, err |-> "none", stack |-> 0, sink |-> sink]

HasBlock(p) == p.block # <<>>
CurBlock(p) == p.block[Len(p.block)]
CurDepth(p) == IF HasBlock(p) THEN CurBlock(p).depth ELSE -1

\* a sink whose write never throws
Reliable == [fails |-> FALSE, after |-> 0]

\* a sink whose write throws once it has accepted n chunks
FailsAfter(n) == [fails |-> TRUE, after |-> n]

\* write that swallows the failure of the sink and goes on
writeCaught(p, chunk) ==
  IF p.err # "none" THEN p
  ELSE IF p.sink.fails /\ p.sink.after = 0 THEN p
  ELSE [p EXCEPT !.out = Append(@, chunk),
                 !.sink.after = IF p.sink.fails THEN @ - 1 ELSE @]

\* this.out.write(chunk): the chunk reaches the sink, or write throws and
\* nothing of the chunk does
write(p, chunk) ==
  IF p.err # "none" THEN p
  ELSE IF p.sink.fails /\ p.sink.after = 0 THEN [p EXCEPT !.err = "SinkError"]
  ELSE [p EXCEPT !.out = Append(@, chunk),
                 !.sink.after = IF p.sink.fails THEN @ - 1 ELSE @]

\* this.lineLength = 0 after a write
resetLine(p) == IF p.err # "none" THEN p ELSE [p EXCEPT !.lineLength = 0]

\* this.lineLength += n before a write
advance(p, n) == IF p.err # "none" THEN p ELSE [p EXCEPT !.lineLength = @ + n]

\* br without the test of lineLength
brAlways(p) == resetLine(write(p, BreakChunk))

br(p) ==
  IF p.err # "none" THEN p
  ELSE IF p.lineLength # 0
       THEN resetLine(write(p, BreakChunk))
       ELSE p

\* colors.xxx(value) when both the option and a style function are given
Styled(p, stylefn) == IF p.colors THEN stylefn ELSE "none"

\* emitIndented that leaves the indentation out of lineLength
emitIndentedUncounted(p, v, n, sty, len) ==
  write(advance(write(p, IndentChunk(n, CurDepth(p))), Len(v)),
        TokChunk(v, sty, CurDepth(p), len))

\* the indentation and the token written at the start of a line
emitIndented(p, v, n, sty, len) ==
  write(advance(write([p EXCEPT !.lineLength = n], IndentChunk(n, CurDepth(p))),
                Len(v)),
        TokChunk(v, sty, CurDepth(p), len))

\* emitWrite that adds the length of the styled token, 10 characters longer,
\* to lineLength
emitWriteStyled(p, value, sty, len) ==
  IF Len(value) = 0 THEN p
  ELSE IF p.lineLength # 0
  THEN write(advance(p, Len(value) + (IF sty # "none" THEN 10 ELSE 0)),
             TokChunk(value, sty, CurDepth(p), len))
  ELSE IF ~HasBlock(p) THEN [p EXCEPT !.err = "TypeError"]
  ELSE emitIndented(p, trimLeft(value), opts.indentSize * CurBlock(p).depth, sty, len)

\* if (value.length > 0) { ... this.out.write(value) }
emitWrite(p, value, sty, len) ==
  IF Len(value) = 0 THEN p
  ELSE IF p.lineLength # 0
  THEN write(advance(p, Len(value)), TokChunk(value, sty, CurDepth(p), len))
  ELSE IF ~HasBlock(p) THEN [p EXCEPT !.err = "TypeError"]
  ELSE emitIndented(p, trimLeft(value), opts.indentSize * CurBlock(p).depth, sty, len)

\* emitResolved that leaves the line alone when the text is empty
emitResolvedQuiet(p, resolved, toBreak, sty) ==
  IF toBreak
  THEN IF trimRight(resolved) = <<>> THEN p
       ELSE br(emitWrite(p, trimRight(resolved), sty, Len(resolved)))
  ELSE emitWrite(p, resolved, sty, Len(resolved))

\* _emit from if (toBreak) value = trimRight(value) on
emitResolved(p, resolved, toBreak, sty) ==
  IF toBreak
  THEN br(emitWrite(p, trimRight(resolved), sty, Len(resolved)))
  ELSE emitWrite(p, resolved, sty, Len(resolved))

\* _emit of a formatter object once toBreak is known
emitObject(p, tok, toBreak, sty) ==
  emitResolved(p, IF toBreak /\ tok.hasBreak THEN tok.breakValue ELSE tok.value,
               toBreak, sty)

\* toBreak that lets a token fill the line up to breakLimit
toBreakOver(p, value) == p.lineLength + Len(value) > opts.breakLimit

\* toBreak = this.lineLength + value.length >= this.options.breakLimit
toBreak(p, value) == p.lineLength + Len(value) >= opts.breakLimit

\* _emit that takes every token for a formatter object
_emitBreakAny(p, tok, stylefn) ==
  IF p.err # "none" THEN p
  ELSE IF tok.tag # "undef"
  THEN emitObject(p, tok, toBreak(p, tok.value),
                  Styled(p, stylefn))
  ELSE emitResolved(p, TxUndefined, FALSE, Styled(p, stylefn))

_emit(p, tok, stylefn) ==
  IF p.err # "none" THEN p
  ELSE IF tok.tag = "obj"
  THEN emitObject(p, tok, toBreak(p, tok.value),
                  Styled(p, stylefn))
  ELSE emitResolved(p, IF tok.tag = "undef" THEN TxUndefined ELSE tok.value,
                    FALSE, Styled(p, stylefn))

\* this.block = block
setBlock(p, nb) ==
  IF p.err # "none" THEN p ELSE [p EXCEPT !.block = Append(@, nb)]

_startBlock(p, b) ==
  IF p.err # "none" THEN p
  ELSE IF ~HasBlock(p) THEN [p EXCEPT !.err = "TypeError"]
  ELSE setBlock(_emit(p, b.open, "none"),
                [b EXCEPT !.depth = CurBlock(p).depth + 1, !.empty = TRUE])

\* _endBlock after this.block = block.parent
closeBlock(p, b) ==
  _emit(IF b.afterLast.tag # "undef" THEN _emit(p, b.afterLast, "none") ELSE p,
        b.close, "none")

\* _endBlock that emits afterLast and the closing token before it makes the
\* parent current
_endBlockLate(p) ==
  IF p.err # "none" THEN p
  ELSE IF ~HasBlock(p) THEN [p EXCEPT !.err = "TypeError"]
  ELSE [closeBlock(p, CurBlock(p)) EXCEPT !.block = SubSeq(p.block, 1, Len(p.block) - 1)]

\* _endBlock that leaves the block it closes current
_endBlockKeep(p) ==
  IF p.err # "none" THEN p
  ELSE IF ~HasBlock(p) THEN [p EXCEPT !.err = "TypeError"]
  ELSE closeBlock(p, CurBlock(p))

_endBlock(p) ==
  IF p.err # "none" THEN p
  ELSE IF ~HasBlock(p) THEN [p EXCEPT !.err = "TypeError"]
  ELSE closeBlock([p EXCEPT !.block = SubSeq(@, 1, Len(@) - 1)], CurBlock(p))

\* a token used as a condition: an object or a non-empty string
Truthy(tok) == tok.tag = "obj" \/ (tok.tag = "str" /\ tok.value # <<>>)

_startItem(p) ==
  IF p.err # "none" THEN p
  ELSE IF ~HasBlock(p) THEN [p EXCEPT !.err = "TypeError"]
  ELSE IF CurBlock(p).empty
       THEN [p EXCEPT !.block[Len(p.block)].empty = FALSE]
       ELSE LET sep == CurBlock(p).separator
                p1 == IF Truthy(sep) THEN _emit(p, sep, "none") ELSE p
            IN _emit(p1, Str(<<SP>>), "none")

\* _endItem that writes no terminator
_endItemNone(p) == p

_endItem(p) ==
  IF p.err # "none" THEN p
  ELSE IF ~HasBlock(p) THEN [p EXCEPT !.err = "TypeError"]
  ELSE LET t == CurBlock(p).terminator
       IN IF Truthy(t) THEN _emit(p, t, "none") ELSE p

(* ---- values ----------------------------------------------------------- *)

\* a reference to the composite value with identity n
Ref(n) == [t |-> "ref", id |-> n, s |-> <<>>]
\* a number whose decimal text is s
Num(s) == [t |-> "num", id |-> 0, s |-> s]
\* a string primitive
StrV(s) == [t |-> "str", id |-> 0, s |-> s]
UndefV == [t |-> "undef", id |-> 0, s |-> TxUndefined]
NullV == [t |-> "null", id |-> 0, s |-> TxNull]
\* a function whose name is s (<<>> for an anonymous one)
FuncV(s) == [t |-> "func", id |-> 0, s |-> s]
\* a boolean or a symbol; s is its toString()
OtherV(s) == [t |-> "other", id |-> 0, s |-> s]

ArrayNode(items) ==
  [kind |-> "array", ctor |-> "Array", keys |-> <<>>, items |-> items]
\* a mapping; ctor names node.constructor, keys are Object.keys(node)
ObjectNode(ctor, keys, items) ==
  [kind |-> "object", ctor |-> ctor, keys |-> keys, items |-> items]

KeyObj == <<"o","b","j">>
KeyExpr == <<"e","x","p","r">>

\* node[key], undefined when the member is missing
Field(node, key) ==
  IF \E i \in 1..Len(node.keys) : node.keys[i] = key
  THEN node.items[CHOOSE i \in 1..Len(node.keys) : node.keys[i] = key]
  ELSE UndefV

CtorName(c) ==
  CASE c = "Wrapper" -> TxWrapper
    [] c = "Closure" -> TxClosureName
    [] c = "Custom" -> TxCustom
    [] OTHER -> <<>>

Letters == {"a","b","c","d","e","f","g","h","i","j","k","l","m","n","o","p",
            "q","r","s","t","u","v","w","x","y","z","_","$",
            "A","B","C","D","E","F","G","H","I","J","K","L","M","N","O","P",
            "Q","R","S","T","U","V","W","X","Y","Z"}
Digits == {"0","1","2","3","4","5","6","7","8","9"}

\* idRegex.test(key) for a string key
_isIdentifier(key) ==
  /\ Len(key) >= 1
  /\ key[1] \in Letters
  /\ \A i \in 2..Len(key) : key[i] \in Letters \cup Digits

\* prototypes that have an entry in Printer.modelMap
Registered == {"Wrapper", "Closure"}

\* the call stack holds a little more than the deepest walk of a heap whose
\* revisits are all detected
StackLimit == Len(heap) + 3

(* ---- the model dispatcher ---------------------------------------------- *)

_id(p, key) == _emit(p, Str(key), "cyan")
_keyword(p, word) == _emit(p, Str(word), "magenta")
_string(p, str) == _emit(p, Str(<<"\"">> \o str \o <<"\"">>), "yellow")

\* the array block without the afterLast token
ArrayBlockNoAfterLast ==
  [open |-> Obj(<<"[">>), close |-> Str(<<"]">>), separator |-> Obj(<<",">>),
   terminator |-> Undef, afterLast |-> Undef, empty |-> TRUE, depth |-> 0]

ArrayBlock ==
  [open |-> Obj(<<"[">>), close |-> Str(<<"]">>), separator |-> Obj(<<",">>),
   terminator |-> Undef, afterLast |-> Obj(<<>>), empty |-> TRUE, depth |-> 0]

\* the mapping block whose terminator has no breakValue
ObjectBlockNoBreakValue ==
  [open |-> Obj(<<"{", SP>>), close |-> Str(<<SP, "}">>), separator |-> Undef,
   terminator |-> Obj(<<";">>), afterLast |-> Undef,
   empty |-> TRUE, depth |-> 0]

ObjectBlock ==
  [open |-> Obj(<<"{", SP>>), close |-> Str(<<SP, "}">>), separator |-> Undef,
   terminator |-> ObjB(<<";">>, <<>>), afterLast |-> Undef,
   empty |-> TRUE, depth |-> 0]

IndentBlock ==
  [open |-> Str(<<>>), close |-> Str(<<>>), separator |-> Undef,
   terminator |-> Undef, afterLast |-> Undef, empty |-> TRUE, depth |-> 0]

RECURSIVE _model(_, _)
RECURSIVE _array(_, _)
RECURSIVE _object(_, _)
RECURSIVE arrayItems(_, _, _)
RECURSIVE objectItems(_, _, _)
RECURSIVE _key(_, _)
RECURSIVE renderer(_, _)
RECURSIVE objectBody(_, _)

_key(p, key) ==
  IF _isIdentifier(key) THEN _id(p, key)
  ELSE _emit(_model(_emit(p, Str(<<"[">>), "none"), StrV(key)), Str(<<"]">>), "none")

\* for (let item of node) this._startItem()._model(item)._endItem()
arrayItems(p, n, i) ==
  IF p.err # "none" \/ i > Len(heap[n].items) THEN p
  ELSE arrayItems(_endItem(_model(_startItem(p), heap[n].items[i])), n, i + 1)

\* _array that takes the entry out of the visited set when the array is done
\* a visited set keyed by contents: the entry of any composite equal to n
seenGetEqual(p, n) ==
  IF \E m \in 1..Len(heap) : heap[m] = heap[n] /\ p.seen[m] # <<>>
  THEN p.seen[CHOOSE m \in 1..Len(heap) : heap[m] = heap[n] /\ p.seen[m] # <<>>]
  ELSE <<>>

\* this.seen.get(node): the Map is keyed by the identity of node
seenGet(p, n) == p.seen[n]

_arrayPop(p, n) ==
  IF p.err # "none" THEN p
  ELSE IF seenGet(p, n) # <<>> THEN _emit(p, Str(seenGet(p, n)), "red")
  ELSE
    LET p1 == [p EXCEPT !.seen[n] = TxCircArray]
        p2 == IF Len(heap[n].items) = 0 THEN _emit(p1, Str(<<"[", "]">>), "none")
              ELSE _endBlock(arrayItems(_startBlock(p1, ArrayBlock), n, 1))
    IN [p2 EXCEPT !.seen[n] = <<>>]

\* _array without the special case of the empty array
_arrayNoEmptyForm(p, n) ==
  IF p.err # "none" THEN p
  ELSE IF seenGet(p, n) # <<>> THEN _emit(p, Str(seenGet(p, n)), "red")
  ELSE
    LET p1 == [p EXCEPT !.seen[n] = TxCircArray]
    IN _endBlock(arrayItems(_startBlock(p1, ArrayBlock), n, 1))

_array(p, n) ==
  IF p.err # "none" THEN p
  ELSE IF seenGet(p, n) # <<>> THEN _emit(p, Str(seenGet(p, n)), "red")
  ELSE
    LET p1 == [p EXCEPT !.seen[n] = TxCircArray]
    IN IF Len(heap[n].items) = 0 THEN _emit(p1, Str(<<"[", "]">>), "none")
       ELSE _endBlock(arrayItems(_startBlock(p1, ArrayBlock), n, 1))

\* for (let key of keys)
\*   this._startItem()._key(key)._emit(" = ")._model(node[key])._endItem()
objectItems(p, n, i) ==
  IF p.err # "none" \/ i > Len(heap[n].keys) THEN p
  ELSE LET p1 == _key(_startItem(p), heap[n].keys[i])
           p2 == _emit(p1, Str(<<SP, "=", SP>>), "none")
       IN objectItems(_endItem(_model(p2, heap[n].items[i])), n, i + 1)

\* if (node.constructor !== Object) this._id(node.constructor.name)._emit(' ')
objectHead(p, n) ==
  IF heap[n].ctor = "Object" THEN p
  ELSE IF heap[n].ctor = "none" THEN [p EXCEPT !.err = "TypeError"]
  ELSE _emit(_id(p, CtorName(heap[n].ctor)), Str(<<SP>>), "none")

\* _object from let keys = Object.keys(node) on
objectBody(p, n) ==
  IF Len(heap[n].keys) = 0 THEN _emit(p, Str(<<"{", "}">>), "none")
  ELSE _endBlock(objectItems(_startBlock(p, ObjectBlock), n, 1))

\* _object that does not record the mapping in the visited set
_objectUnmarked(p, n) ==
  IF p.err # "none" THEN p
  ELSE IF seenGet(p, n) # <<>> THEN _emit(p, Str(seenGet(p, n)), "red")
  ELSE objectBody(objectHead(p, n), n)

_object(p, n) ==
  IF p.err # "none" THEN p
  ELSE IF seenGet(p, n) # <<>> THEN _emit(p, Str(seenGet(p, n)), "red")
  ELSE objectBody(objectHead([p EXCEPT !.seen[n] = TxCircObject], n), n)

\* Printer.modelMap.get(Object.getPrototypeOf(node)).call(this, node)
renderer(p, n) ==
  IF heap[n].ctor = "Wrapper" THEN _model(p, Field(heap[n], KeyObj))
  ELSE \* Closure, options.unreduce unset
    IF opts.annotate
    THEN LET p1 == _emit(_keyword(p, TxClosure), Str(<<"(">>), "none")
         IN _emit(_model(p1, Field(heap[n], KeyExpr)), Str(<<")">>), "none")
    ELSE _model(p, Field(heap[n], KeyExpr))

_model(p, node) ==
  IF p.err # "none" THEN p
  ELSE IF p.stack >= StackLimit THEN [p EXCEPT !.err = "RangeError"]
  ELSE
    LET q == [p EXCEPT !.stack = @ + 1]
        r == CASE node.t = "undef" -> _keyword(q, TxUndefined)
               [] node.t = "null" -> _keyword(q, TxNull)
               [] node.t = "ref" ->
                    IF heap[node.id].kind = "array" THEN _array(q, node.id)
                    ELSE IF ~opts.raw
                         THEN IF heap[node.id].ctor \in Registered
                              THEN renderer(q, node.id)
                              ELSE _object(q, node.id)
                         ELSE _object(q, node.id)
               [] node.t = "func" ->
                    IF node.s # <<>> THEN _id(q, node.s) ELSE _id(q, TxAnonymous)
               [] node.t = "str" -> _string(q, node.s)
               [] node.t = "num" -> _emit(q, Str(node.s), "yellow")
               [] OTHER -> _emit(q, Str(node.s), "none")
    IN [r EXCEPT !.stack = p.stack]

\* model that keeps the visited set of the call before
modelNoClear(p, node) == _model(p, node)

model(p, node) == _model([p EXCEPT !.seen = NoSeen], node)

indent(p) == _startBlock(p, IndentBlock)

unindent(p) == _endBlock(p)


(* ---- the client API ----------------------------------------------------- *)

\* str.substring(a, b), positions counted from 0
substring(str, a, b) == SubSeq(str, a + 1, b)

RECURSIVE join(_, _, _)
RECURSIVE String(_, _)

\* Array.prototype.join(','): null and undefined give '', so does an array
\* that is already being joined
join(items, i, visiting) ==
  IF i > Len(items) THEN <<>>
  ELSE LET e == items[i]
           t == IF e.t \in {"undef", "null"} THEN <<>> ELSE String(e, visiting)
       IN (IF i > 1 THEN <<",">> ELSE <<>>) \o t \o join(items, i + 1, visiting)

\* String(v)
String(v, visiting) ==
  IF v.t = "ref"
  THEN IF heap[v.id].kind = "array"
       THEN IF v.id \in visiting THEN <<>>
            ELSE join(heap[v.id].items, 1, visiting \cup {v.id})
       ELSE TxObjectObject
  ELSE IF v.t = "str" \/ v.t = "num" \/ v.t = "other" THEN v.s
  ELSE IF v.t = "undef" THEN TxUndefined
  ELSE IF v.t = "null" THEN TxNull
  ELSE v.s

\* String(Number(v)) for the primitives the model passes to %d
NumberString(v) ==
  IF v.t = "num" THEN v.s
  ELSE IF v.t = "null" THEN <<"0">>
  ELSE TxNaN

\* the switch of print over the placeholder codes d, m and s
printArg(p, code, arg) ==
  CASE code = "d" -> _emit(p, Str(NumberString(arg)), "none")
    [] code = "m" -> model(p, arg)
    [] code = "s" -> _emit(p, Str(String(arg, {})), "none")

printPercentBoth(p, fmt, lastPos, pos) ==
  _emit(p, Str(substring(fmt, lastPos, pos + 2)), "none")

\* the escape '%%' at pos: the text before it and one '%' are written
printPercent(p, fmt, lastPos, pos) ==
  _emit(p, Str(substring(fmt, lastPos, pos + 1)), "none")

RECURSIVE printScan(_, _, _, _, _, _)
\* the for loop of print over fmt; gives the printer and the argument index
printScan(p, fmt, args, index, lastPos, pos) ==
  IF p.err # "none" THEN [p |-> p, index |-> index]
  ELSE IF pos >= Len(fmt)
  THEN [p |-> _emit(p, Str(substring(fmt, lastPos, Len(fmt))), "none"),
        index |-> index]
  ELSE IF fmt[pos + 1] = "%" /\ pos + 1 < Len(fmt)
  THEN
    IF fmt[pos + 2] = "%"
    THEN printScan(printPercent(p, fmt, lastPos, pos),
                   fmt, args, index, pos + 2, pos + 2)
    ELSE IF index >= Len(args)
    THEN printScan(_emit(p, Str(substring(fmt, lastPos, pos + 2)), "none"),
                   fmt, args, index, pos + 2, pos + 2)
    ELSE IF fmt[pos + 2] \in {"d", "m", "s"}
    THEN printScan(printArg(_emit(p, Str(substring(fmt, lastPos, pos)), "none"),
                            fmt[pos + 2], args[index + 1]),
                   fmt, args, index + 1, pos + 2, pos + 2)
    ELSE printScan(p, fmt, args, index + 1, lastPos, pos)
  ELSE printScan(p, fmt, args, index, lastPos, pos + 1)

\* this._emit(' ') between the remaining arguments
printGap(p, i) == IF i > 0 THEN _emit(p, Str(<<SP>>), "none") ELSE p

\* the position of the scan: the printer, the argument index, lastPos and pos
scanAt(p, index, lastPos, pos) ==
  [p |-> p, index |-> index, lastPos |-> lastPos, pos |-> pos]

\* scanUnknown that does not take the argument
scanUnknownStuck(p, index, lastPos, pos) == scanAt(p, index, lastPos, pos)

\* let arg = arguments[index++] when no case of the switch matches the code
scanUnknown(p, index, lastPos, pos) == scanAt(p, index + 1, lastPos, pos)

\* one pass through the body of the for loop of print, pos < fmt.length
scanStep(p, fmt, args, index, lastPos, pos) ==
  IF fmt[pos + 1] = "%" /\ pos + 1 < Len(fmt)
  THEN
    IF fmt[pos + 2] = "%"
    THEN scanAt(printPercent(p, fmt, lastPos, pos), index, pos + 2, pos + 2)
    ELSE IF index >= Len(args)
    THEN scanAt(_emit(p, Str(substring(fmt, lastPos, pos + 2)), "none"),
                index, pos + 2, pos + 2)
    ELSE IF fmt[pos + 2] \in {"d", "m", "s"}
    THEN scanAt(printArg(_emit(p, Str(substring(fmt, lastPos, pos)), "none"),
                         fmt[pos + 2], args[index + 1]),
                index + 1, pos + 2, pos + 2)
    ELSE scanUnknown(p, index, lastPos, pos)
  ELSE scanAt(p, index, lastPos, pos + 1)

\* this._emit(fmt.substring(lastPos)) after the for loop
scanEnd(p, fmt, index, lastPos) ==
  scanAt(_emit(p, Str(substring(fmt, lastPos, Len(fmt))), "none"),
         index, lastPos, Len(fmt))

\* one pass through the body of the loop over the remaining arguments
restStep(p, args, i) ==
  scanAt(_emit(printGap(p, i), Str(String(args[i + 1], {})), "none"), i + 1, 0, 0)

RECURSIVE printRest(_, _, _)
\* print remaining arguments
printRest(p, args, i) ==
  IF p.err # "none" \/ i >= Len(args) THEN p
  ELSE printRest(_emit(printGap(p, i), Str(String(args[i + 1], {})), "none"),
                 args, i + 1)

\* the second loop of print, entered with the printer and index the first left
printTail(r, args) == printRest(r.p, args, r.index)

\* print(...args); args[1] is fmt
print(p, args) ==
  IF Len(args) > 0 /\ args[1].t = "str"
  THEN printTail(printScan(p, args[1].s, args, 1, 0, 0), args)
  ELSE printRest(p, args, 0)

lineBreakSoft(p) == br(p)

\* this.out.write(this.options.lineBreak); this.lineLength = 0
lineBreak(p) == resetLine(write(p, BreakChunk))

println(p, args) == lineBreak(print(p, args))

rule(p, chr) ==
  LET len0 == opts.breakLimit - p.lineLength
      len == IF len0 < MinRuleLength THEN MinRuleLength ELSE len0
  IN br(_emit(p, Str([i \in 1..len |-> chr]), "none"))


(* ---- the older variant of the printer (src/unnamed/part_001) ----------- *)

\* The record o is the older printer: its fields out (the characters the
\* sink received), indentDepth, lineLength, chunk, needSeparator and
\* needTerminator, its options compact and breakLength, the exception err a
\* call threw and the value ret the last call returned.

NL == "\n"

\* opts.indentPattern, '  ' when the caller gives none
IndentPattern == <<SP, SP>>

\* pattern.repeat(n)
repeat(pattern, n) == Flatten([i \in 1..n |-> pattern])

\* opts.breakLength when the caller gives none: lineLength > undefined is false
NoBreakLength == [def |-> FALSE, n |-> 0]

BreakLength(n) == [def |-> TRUE, n |-> n]

\* new Printer(out, {compact, breakLength}) of the older variant
OldPrinter(compact, breakLength) ==
  [out |-> <<>>, indentDepth |-> 0, lineLength |-> 0, chunk |-> <<>>,
   needSeparator |-> FALSE, needTerminator |-> FALSE,
   compact |-> compact, breakLength |-> breakLength,
   err |-> "none", ret |-> "this"]

\* no older printer was built
NoOld == [built |-> FALSE]

NoOldCall ==
  [op |-> "new", args |-> <<>>, ret |-> "this", pre |-> NoOld,
   run |-> 0, runPre |-> NoOld]

\* return this
returnThis(o) == IF o.err # "none" THEN o ELSE [o EXCEPT !.ret = "this"]

\* _ensureIndent(): indentation goes into the chunk when lineLength is 0
_ensureIndent(o) ==
  IF o.err # "none" \/ o.lineLength # 0 THEN o
  ELSE [o EXCEPT !.chunk = @ \o repeat(IndentPattern, o.indentDepth),
                 !.lineLength = @ + Len(IndentPattern) * o.indentDepth]

\* if (this.needSeparator) { ... } of _flush
flushSeparator(o, needBreak) ==
  IF ~o.needSeparator THEN o
  ELSE [o EXCEPT !.needSeparator = FALSE,
                 !.out = @ \o (IF needBreak THEN <<",">> ELSE <<",", SP>>)]

\* if (this.needTerminator) { ... } of _flush
flushTerminator(o, needBreak) ==
  IF ~o.needTerminator THEN o
  ELSE IF needBreak THEN [o EXCEPT !.needTerminator = FALSE]
  ELSE [o EXCEPT !.needTerminator = FALSE,
                 !.out = @ \o <<";", SP>>,
                 !.lineLength = @ + 2]

\* if (needBreak) { ... } of _flush
flushBreak(o, needBreak) ==
  IF needBreak THEN [o EXCEPT !.out = Append(@, NL), !.lineLength = 0] ELSE o

\* this.out.write(this.chunk); this.chunk = ""
flushChunk(o) == [o EXCEPT !.out = @ \o o.chunk, !.chunk = <<>>]

\* _flush once needBreak is settled
flushAll(o, needBreak) ==
  flushChunk(flushBreak(flushTerminator(flushSeparator(o, needBreak), needBreak),
                        needBreak))

\* _flush(needBreak)
_flush(o, needBreak) ==
  IF o.err # "none" THEN o
  ELSE returnThis(flushAll(o, needBreak
                             \/ (o.breakLength.def /\ o.lineLength > o.breakLength.n)))

\* this.lineLength += str.length; this.chunk += str
addText(o, str) ==
  IF o.err # "none" THEN o
  ELSE [o EXCEPT !.lineLength = @ + Len(str), !.chunk = @ \o str]

\* text(str)
oldText(o, str) == _flush(addText(_ensureIndent(o), str), FALSE)

RECURSIVE utilFormatFrom(_, _, _, _)
\* util.format with arguments: %d, %s and %% substituted, the arguments that
\* are left appended after a space each
utilFormatFrom(fmt, pos, args, i) ==
  IF pos > Len(fmt)
  THEN IF i > Len(args) THEN <<>>
       ELSE <<SP>> \o String(args[i], {}) \o utilFormatFrom(fmt, pos, args, i + 1)
  ELSE IF fmt[pos] = "%" /\ pos < Len(fmt) /\ fmt[pos + 1] = "%"
  THEN <<"%">> \o utilFormatFrom(fmt, pos + 2, args, i)
  ELSE IF fmt[pos] = "%" /\ pos < Len(fmt) /\ fmt[pos + 1] \in {"d", "s"}
          /\ i <= Len(args)
  THEN (IF fmt[pos + 1] = "d" THEN NumberString(args[i]) ELSE String(args[i], {}))
       \o utilFormatFrom(fmt, pos + 2, args, i + 1)
  ELSE <<fmt[pos]>> \o utilFormatFrom(fmt, pos + 1, args, i)

\* util.format(format, ...rest) for a string format; a format that comes
\* alone is returned as it is
utilFormat(args) ==
  IF Len(args) = 1 THEN args[1].s ELSE utilFormatFrom(args[1].s, 1, args, 2)

\* format(format, ...rest)
format(o, args) == oldText(o, utilFormat(args))

\* br() of the older variant
oldBr(o) ==
  IF o.err # "none" THEN o
  ELSE IF o.lineLength # 0 THEN _flush(o, TRUE)
  ELSE returnThis(o)

\* ln(str)
ln(o, str) ==
  IF str # <<>> THEN _flush(oldText(oldBr(o), str), TRUE) ELSE _flush(o, TRUE)

\* rule(len, pattern) of the older variant
oldRule(o, len, pattern) == ln(o, repeat(pattern, len))

\* indent() of the older variant
oldIndent(o) ==
  IF o.err # "none" THEN o ELSE returnThis([o EXCEPT !.indentDepth = @ + 1])

\* unindent() of the older variant: a bare return at depth 0
oldUnindent(o) ==
  IF o.err # "none" THEN o
  ELSE IF o.indentDepth <= 0 THEN [o EXCEPT !.ret = "undefined"]
  ELSE returnThis([o EXCEPT !.indentDepth = @ - 1])

\* _print(str, colorize); this.colors is never set, so no style is applied
_print(o, str) == returnThis(addText(_ensureIndent(o), str))

\* _model(node) of the older variant; this.open is not a function, so
\* _array and _object throw once the node is put in the map, _object after
\* the name of a constructor other than Object went into the chunk
old_model(o, node) ==
  IF o.err # "none" THEN o
  ELSE CASE node.t = "undef" -> _print(o, TxUndefined)
         [] node.t = "null" -> _print(o, TxNull)
         [] node.t = "ref" ->
              IF heap[node.id].kind = "array" \/ heap[node.id].ctor = "Object"
              THEN [o EXCEPT !.err = "TypeError"]
              ELSE [_print(o, CtorName(heap[node.id].ctor)) EXCEPT !.err = "TypeError"]
         [] node.t = "func" ->
              _print(o, IF node.s # <<>> THEN node.s ELSE TxAnonymous)
         [] node.t = "str" -> _print(o, <<"\"">> \o node.s \o <<"\"">>)
         [] OTHER -> _print(o, node.s)

\* model(node) of the older variant
oldModel(o, node) == _flush(old_model(o, node), FALSE)


(* ---- the state machine --------------------------------------------------- *)

\* the printer fields a call can change
Snapshot ==
  [out |-> out, lineLength |-> lineLength, block |-> block, seen |-> seen,
   sink |-> sink]

NoCall ==
  [op |-> "new", args |-> <<>>, err |-> "none", pre |-> Snapshot,
   run |-> 0, runPre |-> Snapshot]

\* the public call name(args) took the printer to q
Do(name, args, q) ==
  /\ out' = q.out
  /\ lineLength' = q.lineLength
  /\ block' = q.block
  /\ seen' = q.seen
  /\ last' = [op |-> name, args |-> args, err |-> q.err, pre |-> Snapshot,
              run |-> IF name = last.op THEN last.run + 1 ELSE 1,
              runPre |-> IF name = last.op THEN last.runPre ELSE Snapshot]
  /\ nops' = nops + 1
  /\ sink' = q.sink
  /\ UNCHANGED <<opts, heap, old, oldLast>>

\* the options of the API specification: the default ones, the default ones
\* with a narrow breakLimit, and raw printing without colors
Options ==
  { [indentSize |-> DefaultIndentSize, breakLimit |-> b, raw |-> FALSE,
     colors |-> TRUE, annotate |-> FALSE] : b \in {0, 6, DefaultBreakLimit} }
  \cup { [indentSize |-> DefaultIndentSize, breakLimit |-> DefaultBreakLimit,
          raw |-> TRUE, colors |-> FALSE, annotate |-> FALSE] }

\* new Printer(out, options, depth)
\* new Printer(s, opts, depth)
Constructed(s, depth) ==
  /\ out = <<>>
  /\ lineLength = 0
  /\ block = <<RootBlock(depth)>>
  /\ seen = NoSeen
  /\ sink = s
  /\ last = NoCall
  /\ nops = 0

\* new Printer(s, opts, depth), no older printer built
NewPrinterOn(s, depth) ==
  /\ Constructed(s, depth)
  /\ old = NoOld
  /\ oldLast = NoOldCall

NewPrinter(depth) == NewPrinterOn(Reliable, depth)

One == Num(<<"1">>)

KeyNames == <<"a", "b", "c", "d", "e", "f">>
\* the member names of a mapping with n members
KeysOf(n) == [i \in 1..n |-> <<KeyNames[i]>>]

PlainObject(items) == ObjectNode("Object", KeysOf(Len(items)), items)

Two == Num(<<"2">>)

\* the values of the API specification:
\*   1  []
\*   2  { a: 1, b: #1, c: #1 }      #1 is shared
\*   3  { a: 1, b: #4, c: 2 }
\*   4  { a: #1 }
\*   5  [ 1, #5 ]                   reaches itself
\*   6  Wrapper { obj: #6 }         reaches itself through a registered kind
SampleHeap ==
  << ArrayNode(<<>>),
     PlainObject(<<One, Ref(1), Ref(1)>>),
     PlainObject(<<One, Ref(4), Two>>),
     PlainObject(<<Ref(1)>>),
     ArrayNode(<<One, Ref(5)>>),
     ObjectNode("Wrapper", <<KeyObj>>, <<Ref(6)>>) >>

Init ==
  /\ opts \in Options
  /\ heap = SampleHeap
  /\ \E depth \in {0, 1} : NewPrinter(depth)

FmtArgs ==
  { <<StrV(<<"a">>)>>, <<StrV(<<SP>>)>>, <<StrV(<<"%", "m">>), Ref(3)>> }

CallPrint ==
  /\ nops < MaxOps
  /\ \E a \in FmtArgs : Do("print", a, print(This, a))

CallPrintln ==
  /\ nops < MaxOps
  /\ Do("println", <<>>, println(This, <<>>))

CallBr ==
  /\ nops < MaxOps
  /\ Do("br", <<>>, br(This))

CallRule ==
  /\ nops < MaxOps
  /\ Do("rule", <<StrV(<<"-">>)>>, rule(This, "-"))

CallModel ==
  /\ nops < MaxOps
  /\ \E n \in 1..Len(heap) : Do("model", <<Ref(n)>>, model(This, Ref(n)))

CallIndent ==
  /\ nops < MaxOps
  /\ Do("indent", <<>>, indent(This))

CallUnindent ==
  /\ nops < MaxOps
  /\ Do("unindent", <<>>, unindent(This))

Next ==
  CallPrint \/ CallPrintln \/ CallBr \/ CallRule \/ CallModel
  \/ CallIndent \/ CallUnindent

Spec == Init /\ [][Next]_vars


(* ---- the value-graph specification ---------------------------------------- *)
(* Every heap of at most MaxNodes arrays and plain mappings with at most      *)
(* MaxEdges elements in all, each element the number 1 or a reference to a    *)
(* composite of the heap; value 1 is printed by successive top-level calls.   *)

ChildValues == {One} \cup {Ref(n) : n \in 1..MaxNodes}

NodesOfArity(k) ==
  { ArrayNode(items) : items \in [1..k -> ChildValues] }
  \cup { PlainObject(items) : items \in [1..k -> ChildValues] }

RECURSIVE HeapsFrom(_, _)
\* the heaps of the nodes n..MaxNodes that have at most budget elements
HeapsFrom(n, budget) ==
  IF n > MaxNodes THEN {<<>>}
  ELSE UNION { { <<node>> \o rest :
                   node \in NodesOfArity(k), rest \in HeapsFrom(n + 1, budget - k) }
               : k \in 0..budget }

\* the identities referenced by the elements of the nodes in S
Targets(h, S) ==
  { h[n].items[i].id : <<n, i>> \in
      { <<m, j>> \in S \X (1..Len(KeyNames)) :
          j <= Len(h[m].items) /\ h[m].items[j].t = "ref" } }

RECURSIVE ReachFrom(_, _)
ReachFrom(h, S) ==
  LET T == S \cup Targets(h, S) IN IF T = S THEN S ELSE ReachFrom(h, T)

\* the composites model(v) can meet
Reach(h, v) == IF v.t = "ref" THEN ReachFrom(h, {v.id}) ELSE {}

\* a composite that value 1 does not reach is an empty array
Heaps ==
  { h \in HeapsFrom(1, MaxEdges) :
      \A n \in 1..MaxNodes : n \in Reach(h, Ref(1)) \/ h[n] = ArrayNode(<<>>) }

GraphOptions ==
  [indentSize : {DefaultIndentSize},
   breakLimit : {0, DefaultBreakLimit},
   raw : {FALSE},
   colors : {TRUE},
   annotate : {FALSE}]

InitGraph ==
  /\ opts \in GraphOptions
  /\ heap \in Heaps
  /\ NewPrinter(0)

\* p.model(v)
GraphModel ==
  /\ nops < MaxCalls
  /\ Do("model", <<Ref(1)>>, model(This, Ref(1)))

NextGraph == GraphModel

SpecGraph == InitGraph /\ [][NextGraph]_vars


(* ---- the format specification ------------------------------------------- *)
(* print, println and br called with the argument lists of FormatInputs on a  *)
(* printer with the default options, built with depth 0 or 1.                 *)

\* the argument lists given to print and println; the first is fmt
FormatInputs ==
  { <<>>,
    <<One, Two>>,
    <<UndefV, NullV>>,
    <<StrV(<<>>), One, Two>>,
    <<StrV(<<"a">>), One>>,
    <<StrV(<<"%", "d">>), One, Two>>,
    <<StrV(<<"%", "s", "%", "s">>)>>,
    <<StrV(<<"%", "s", "%", "d">>), StrV(<<"b">>), Two>>,
    <<StrV(<<"%", "%">>), One>>,
    <<StrV(<<"a", "%", "%", "%", "d">>)>>,
    <<StrV(<<".", "%", "m", ".">>)>>,
    <<StrV(<<"%", "m">>), Ref(4)>>,
    <<StrV(<<"%">>)>>,
    <<StrV(<<"%", "x">>), One, Two>> }

FormatOptions ==
  { [indentSize |-> DefaultIndentSize, breakLimit |-> DefaultBreakLimit,
     raw |-> FALSE, colors |-> TRUE, annotate |-> FALSE] }

InitFormat ==
  /\ opts \in FormatOptions
  /\ heap = SampleHeap
  /\ \E depth \in {0, 1} : NewPrinter(depth)

FormatPrint ==
  /\ nops < MaxFormats
  /\ \E a \in FormatInputs : Do("print", a, print(This, a))

FormatPrintln ==
  /\ nops < MaxFormats
  /\ \E a \in FormatInputs : Do("println", a, println(This, a))

FormatBr ==
  /\ nops < MaxFormats
  /\ Do("br", <<>>, br(This))

NextFormat == FormatPrint \/ FormatPrintln \/ FormatBr

SpecFormat == InitFormat /\ [][NextFormat]_vars


(* ---- the scan specification ------------------------------------------------- *)
(* One call of print taken pass by pass through its two loops: every step is   *)
(* one pass through the body of the for loop over fmt, the _emit after it, or  *)
(* one pass through the loop over the remaining arguments.  The position of    *)
(* the call is kept in last: phase "scan" with index, lastPos and pos, phase   *)
(* "rest" with index for i, phase "done" when print has returned or thrown.   *)
(* At most MaxPasses steps of a call are followed.                             *)

\* the argument lists given to print
ScanInputs ==
  FormatInputs
  \cup { <<StrV(<<"%", "x", "%", "d">>), One>>,
         <<StrV(<<"%", "x", "%", "y">>), One, Two>>,
         <<StrV(<<"a", "%", "x", "b">>), One>>,
         <<StrV(<<"%", "m", "%", "x">>), Ref(5), One, Two>> }

\* print(...a) has been entered
ScanEntered(a) ==
  last = [op |-> "print", args |-> a, err |-> "none", pre |-> Snapshot,
          run |-> 1, runPre |-> Snapshot,
          phase |-> IF Len(a) > 0 /\ a[1].t = "str" THEN "scan" ELSE "rest",
          index |-> IF Len(a) > 0 /\ a[1].t = "str" THEN 1 ELSE 0,
          lastPos |-> 0, pos |-> 0]

InitScan ==
  /\ opts \in FormatOptions
  /\ heap = SampleHeap
  /\ \E depth \in {0, 1} :
       /\ out = <<>>
       /\ lineLength = 0
       /\ block = <<RootBlock(depth)>>
       /\ seen = NoSeen
       /\ sink = Reliable
  /\ nops = 0
  /\ old = NoOld
  /\ oldLast = NoOldCall
  /\ \E a \in ScanInputs : ScanEntered(a)

\* the call moved to position r and goes on in phase ph unless it threw
ScanTo(r, ph) ==
  /\ out' = r.p.out
  /\ lineLength' = r.p.lineLength
  /\ block' = r.p.block
  /\ seen' = r.p.seen
  /\ sink' = r.p.sink
  /\ last' = [last EXCEPT !.err = r.p.err,
                          !.phase = IF r.p.err # "none" THEN "done" ELSE ph,
                          !.index = r.index, !.lastPos = r.lastPos, !.pos = r.pos]
  /\ nops' = nops + 1
  /\ UNCHANGED <<opts, heap, old, oldLast>>

\* for (let pos = 0; pos < fmt.length;) { ... }
ScanPass ==
  /\ nops < MaxPasses
  /\ last.phase = "scan"
  /\ last.pos < Len(last.args[1].s)
  /\ ScanTo(scanStep(This, last.args[1].s, last.args, last.index, last.lastPos,
                     last.pos), "scan")

\* this._emit(fmt.substring(lastPos)) when the for loop is left
ScanLeave ==
  /\ nops < MaxPasses
  /\ last.phase = "scan"
  /\ last.pos >= Len(last.args[1].s)
  /\ ScanTo(scanEnd(This, last.args[1].s, last.index, last.lastPos), "rest")

\* for (let i = index; i < arguments.length; ++i) { ... }
RestPass ==
  /\ nops < MaxPasses
  /\ last.phase = "rest"
  /\ last.index < Len(last.args)
  /\ ScanTo(restStep(This, last.args, last.index), "rest")

\* return this
ScanReturn ==
  /\ nops < MaxPasses
  /\ last.phase = "rest"
  /\ last.index >= Len(last.args)
  /\ last' = [last EXCEPT !.phase = "done"]
  /\ nops' = nops + 1
  /\ UNCHANGED <<opts, heap, out, lineLength, block, seen, sink, old, oldLast>>

NextScan == ScanPass \/ ScanLeave \/ RestPass \/ ScanReturn

\* a call that has not returned runs its next statement; nops counts the
\* statements run
ScanRuns == last.phase # "done" /\ nops < MaxPasses /\ nops' = nops + 1

\* the statements of one call run one after the other until it returns
SpecScan == InitScan /\ [][NextScan]_vars /\ WF_nops(ScanRuns)


(* ---- the sink specification -------------------------------------------------- *)
(* The printing calls on a printer whose sink throws from some write on.       *)

SinkOptions == { o \in Options : ~o.raw /\ o.breakLimit # 6 }

InitSink ==
  /\ opts \in SinkOptions
  /\ heap = SampleHeap
  /\ \E n \in 0..MaxWrites, depth \in {0, 1} : NewPrinterOn(FailsAfter(n), depth)

SinkPrint ==
  /\ nops < MaxSinkOps
  /\ \E a \in FmtArgs : Do("print", a, print(This, a))

SinkPrintln ==
  /\ nops < MaxSinkOps
  /\ \E a \in FmtArgs : Do("println", a, println(This, a))

SinkBr ==
  /\ nops < MaxSinkOps
  /\ Do("br", <<>>, br(This))

SinkRule ==
  /\ nops < MaxSinkOps
  /\ Do("rule", <<StrV(<<"-">>)>>, rule(This, "-"))

SinkModel ==
  /\ nops < MaxSinkOps
  /\ \E n \in 1..Len(heap) : Do("model", <<Ref(n)>>, model(This, Ref(n)))

NextSink == SinkPrint \/ SinkPrintln \/ SinkBr \/ SinkRule \/ SinkModel

SpecSink == InitSink /\ [][NextSink]_vars


(* ---- the value specification ------------------------------------------------ *)
(* model(v) for every kind of value: the primitives, functions with and       *)
(* without a name, arrays and mappings, among them distinct composites with   *)
(* equal contents, a mapping of a class that is not registered and a mapping  *)
(* without prototype.                                                         *)

ValueHeap ==
  << ArrayNode(<<>>),
     ArrayNode(<<>>),
     PlainObject(<<One>>),
     PlainObject(<<One>>),
     ArrayNode(<<Ref(3), Ref(4)>>),
     ArrayNode(<<Ref(1), Ref(2)>>),
     ArrayNode(<<One, One, FuncV(<<"f">>), FuncV(<<"f">>)>>),
     ObjectNode("none", <<>>, <<>>),
     ObjectNode("Custom", <<>>, <<>>),
     PlainObject(<<>>) >>

Values ==
  { UndefV, NullV, One, StrV(<<"a">>), OtherV(<<"t", "r", "u", "e">>),
    FuncV(<<"f">>), FuncV(<<>>) }
  \cup { Ref(n) : n \in 1..Len(ValueHeap) }

InitValues ==
  /\ opts \in Options
  /\ heap = ValueHeap
  /\ NewPrinter(0)

ValueModel ==
  /\ nops < MaxValueCalls
  /\ \E v \in Values : Do("model", <<v>>, model(This, v))

NextValues == ValueModel

SpecValues == InitValues /\ [][NextValues]_vars


(* ---- the specification of the older variant -------------------------------- *)
(* The public calls of src/unnamed/part_001 on a printer built with or         *)
(* without opts.compact and opts.breakLength.                                  *)

OldPrinters ==
  { OldPrinter(c, b) : c \in BOOLEAN, b \in {NoBreakLength, BreakLength(3)} }

\* the strings given to text and ln
OldTexts == { <<>>, <<"a">>, <<"b", "c">> }

\* the argument lists given to format
OldFormats == { <<StrV(<<"%", "%">>)>>, <<StrV(<<"%", "d">>), One>> }

\* the values given to model: a primitive, a function and an array
OldValues == { One, FuncV(<<"f">>), Ref(1) }

InitOld ==
  /\ opts \in FormatOptions
  /\ heap = SampleHeap
  /\ Constructed(Reliable, 0)
  /\ old \in OldPrinters
  /\ oldLast = [NoOldCall EXCEPT !.pre = old, !.runPre = old]

\* the public call name(args) took the older printer to q
DoOld(name, args, q) ==
  /\ old' = [q EXCEPT !.err = "none", !.ret = "this"]
  /\ oldLast' = [op |-> name, args |-> args,
                 ret |-> IF q.err # "none" THEN "thrown" ELSE q.ret,
                 pre |-> old,
                 run |-> IF name = oldLast.op /\ args = oldLast.args
                         THEN oldLast.run + 1 ELSE 1,
                 runPre |-> IF name = oldLast.op /\ args = oldLast.args
                            THEN oldLast.runPre ELSE old]
  /\ nops' = nops + 1
  /\ UNCHANGED <<opts, heap, out, lineLength, block, seen, last, sink>>

OldText ==
  /\ nops < MaxOldOps
  /\ \E str \in OldTexts : DoOld("text", <<str>>, oldText(old, str))

OldFormat ==
  /\ nops < MaxOldOps
  /\ \E a \in OldFormats : DoOld("format", a, format(old, a))

OldBr ==
  /\ nops < MaxOldOps
  /\ DoOld("br", <<>>, oldBr(old))

OldLn ==
  /\ nops < MaxOldOps
  /\ \E str \in OldTexts : DoOld("ln", <<str>>, ln(old, str))

OldRule ==
  /\ nops < MaxOldOps
  /\ DoOld("rule", <<2, <<"-">>>>, oldRule(old, 2, <<"-">>))

OldModel ==
  /\ nops < MaxOldOps
  /\ \E v \in OldValues : DoOld("model", <<v>>, oldModel(old, v))

OldIndent ==
  /\ nops < MaxOldOps
  /\ DoOld("indent", <<>>, oldIndent(old))

OldUnindent ==
  /\ nops < MaxOldOps
  /\ DoOld("unindent", <<>>, oldUnindent(old))

NextOld ==
  OldText \/ OldFormat \/ OldBr \/ OldLn \/ OldRule \/ OldModel
  \/ OldIndent \/ OldUnindent

SpecOld == InitOld /\ [][NextOld]_vars


(* ---- reading the sink ------------------------------------------------------ *)

\* the chunks the last public call wrote
CallOut == SubSeq(out, Len(last.pre.out) + 1, Len(out))

\* the text of the tokens among the chunks cs, indentation and breaks left out
TokenText(cs) ==
  Flatten([i \in 1..Len(cs) |-> IF cs[i].kind = "tok" THEN cs[i].text ELSE <<>>])

\* how many of the chunks cs are a token whose text is one of texts
Count(cs, texts) ==
  Cardinality({ i \in 1..Len(cs) : cs[i].kind = "tok" /\ cs[i].text \in texts })

RECURSIVE StartOf(_)
\* the first chunk of the output line that holds chunk i
StartOf(i) ==
  IF i = 1 \/ out[i - 1].kind = "brk" THEN i ELSE StartOf(i - 1)

\* the last chunks of the output lines, the break that ends a line left out
Ends ==
  { i \in 1..Len(out) :
      out[i].kind # "brk" /\ (i = Len(out) \/ out[i + 1].kind = "brk") }

RECURSIVE Width(_, _)
\* the number of characters in the chunks a..b
Width(a, b) == IF a > b THEN 0 ELSE Len(out[a].text) + Width(a + 1, b)

\* a token chunk that shows text
Visible(j) == out[j].kind = "tok" /\ out[j].text # <<>>

\* the value a top-level model call printed: model(v) or print('%m', v)
IsModelCall ==
  \/ last.op = "model"
  \/ last.op = "print" /\ Len(last.args) = 2 /\ last.args[1] = StrV(<<"%", "m">>)

Printed == IF last.op = "model" THEN last.args[1] ELSE last.args[2]

Arrays(S) == { n \in S : heap[n].kind = "array" }
Mappings(S) == { n \in S : heap[n].kind = "object" }

\* the elements of the composites in S that refer to a composite in T
Edges(S, T) ==
  { e \in S \X (1..Len(KeyNames)) :
      /\ e[2] <= Len(heap[e[1]].items)
      /\ heap[e[1]].items[e[2]].t = "ref"
      /\ heap[e[1]].items[e[2]].id \in T }

\* some composite of S reaches itself
HasCycle(S) == \E n \in S : n \in ReachFrom(heap, Targets(heap, {n}))

OpenArray == {<<"[">>}
OpenMapping == {<<"{", SP>>, <<"{">>}
EmptyArray == {<<"[", "]">>}
EmptyMapping == {<<"{", "}">>}

\* the visited set that holds exactly the composites of S
SeenOf(S) ==
  [n \in 1..Len(heap) |->
     IF n \notin S THEN <<>>
     ELSE IF heap[n].kind = "array" THEN TxCircArray ELSE TxCircObject]


(* ---- claims ------------------------------------------------------------------ *)

\* C1: a run of consecutive br() calls writes exactly one line break when the
\* line had content (lineLength > 0) at the start of the run and none when it
\* was empty; the br() calls after the first change neither the sink nor the
\* printer.
C1_BrCollapses ==
  last.op = "br" =>
    /\ last.err = "none"
    /\ out = last.runPre.out
               \o (IF last.runPre.lineLength > 0 THEN <<BreakChunk>> ELSE <<>>)
    /\ lineLength = 0
    /\ block = last.runPre.block
    /\ seen = last.runPre.seen
    /\ last.run > 1 =>
         /\ out = last.pre.out
         /\ lineLength = last.pre.lineLength
         /\ block = last.pre.block
         /\ seen = last.pre.seen

\* a second br() in a row, the run having started on a line with content
C1_Witness ==
  /\ last.op = "br"
  /\ last.run >= 2
  /\ last.runPre.lineLength > 0
  /\ out = Append(last.runPre.out, BreakChunk)


\* 1 when the printed value is a composite of kind k, else 0
RootIs(k) ==
  IF Printed.t = "ref" /\ heap[Printed.id].kind = k THEN 1 ELSE 0

\* C2: model(v) returns for every graph of arrays and plain mappings that
\* holds a reference cycle; every composite v reaches is descended into
\* exactly once, and every further reference to it is written as the
\* placeholder of its kind, '@circular[array]' or '@circular[object]'.
C2_CyclesTerminate ==
  (last.op = "model" /\ HasCycle(Reach(heap, Printed))) =>
    LET R == Reach(heap, Printed)
    IN /\ last.err = "none"
       /\ Count(CallOut, OpenArray) + Count(CallOut, EmptyArray)
            = Cardinality(Arrays(R))
       /\ Count(CallOut, OpenMapping) + Count(CallOut, EmptyMapping)
            = Cardinality(Mappings(R))
       /\ Count(CallOut, {TxCircArray})
            = Cardinality(Edges(R, Arrays(R))) + RootIs("array")
                - Cardinality(Arrays(R))
       /\ Count(CallOut, {TxCircObject})
            = Cardinality(Edges(R, Mappings(R))) + RootIs("object")
                - Cardinality(Mappings(R))

\* a cycle through two composites of different kinds was printed
C2_Witness ==
  /\ last.op = "model"
  /\ last.err = "none"
  /\ heap[1].kind = "object"
  /\ heap[2].kind = "array"
  /\ heap[1].items = <<Ref(2)>>
  /\ heap[2].items = <<One, Ref(1)>>
  /\ Count(CallOut, {TxCircObject}) = 1
  /\ Count(CallOut, {TxCircArray}) = 0

\* C3: with the raw option unset, model(v) returns and writes a placeholder
\* also when v is a mapping with a registered renderer that reaches itself.
C3_RegisteredCycleTerminates ==
  ( /\ last.op = "model"
    /\ ~opts.raw
    /\ heap[Printed.id].ctor \in Registered
    /\ HasCycle(Reach(heap, Printed)) ) =>
    /\ last.err = "none"
    /\ Count(CallOut, {TxCircArray, TxCircObject}) >= 1

\* C8: the visited set after model(v) holds every composite v reaches, none
\* having been removed; in a graph without cycles every reference to a
\* composite beyond the first is written as a circular placeholder.
C8_SharedIsPlaceholder ==
  last.op = "model" =>
    LET R == Reach(heap, Printed)
    IN /\ last.err = "none"
       /\ seen = SeenOf(R)
       /\ ~HasCycle(R) =>
            Count(CallOut, {TxCircArray, TxCircObject})
              = Cardinality(Edges(R, R)) + 1 - Cardinality(R)

\* an array whose two elements are the same non-empty array, no cycle
C8_Witness ==
  /\ last.op = "model"
  /\ last.err = "none"
  /\ heap[1] = ArrayNode(<<Ref(2), Ref(2)>>)
  /\ heap[2] = ArrayNode(<<One>>)
  /\ opts.breakLimit = DefaultBreakLimit
  /\ TokenText(CallOut) = <<"[", "[", "1", "]", ",", SP>> \o TxCircArray \o <<"]">>


\* C4: no output line, indentation included, is longer than breakLimit
\* columns, except a line that holds a token which alone is longer than
\* breakLimit.
C4_WidthBounded ==
  \A i \in Ends :
    \/ Width(StartOf(i), i) <= opts.breakLimit
    \/ \E j \in StartOf(i)..i :
         out[j].kind = "tok" /\ out[j].len > opts.breakLimit

\* C5: a line that shows token text starts with exactly indentSize x d spaces,
\* d being the depth of the block that is current when the first text of the
\* line is written, and the indentation is written once, before that text.
\* (The line that shows no text is the subject of C6.)
C5_IndentInvariant ==
  \A i \in Ends :
    LET L == StartOf(i)..i
        V == { j \in L : Visible(j) }
        I == { j \in L : out[j].kind = "ind" /\ out[j].text # <<>> }
    IN V # {} =>
         LET f == CHOOSE j \in V : \A k \in V : j <= k
         IN out[f].depth >= 0 =>
              /\ Width(StartOf(i), f - 1) = opts.indentSize * out[f].depth
              /\ Cardinality(I) <= 1
              /\ \A j \in I : j < f

\* C6: no finished line consists only of spaces.
C6_NoBlankIndentedLine ==
  \A i \in Ends :
    (i < Len(out) /\ Width(StartOf(i), i) > 0) =>
      \E j \in StartOf(i)..i :
        \E k \in 1..Len(out[j].text) : out[j].text[k] # SP

\* the composites of S that have no element / no member
Empties(S) == { n \in S : heap[n].items = <<>> }

\* C7 as stated: every occurrence of an empty array or empty mapping in the
\* printed graph is written as '[]' or '{}'.
C7_EmptyFormEverywhere ==
  last.op = "model" =>
    LET R == Reach(heap, Printed)
        rootEmpty(k) == IF heap[Printed.id].items = <<>> THEN RootIs(k) ELSE 0
    IN /\ Count(CallOut, EmptyArray)
            = Cardinality(Edges(R, Empties(Arrays(R)))) + rootEmpty("array")
       /\ Count(CallOut, EmptyMapping)
            = Cardinality(Edges(R, Empties(Mappings(R)))) + rootEmpty("object")

\* C7 amended: an empty array or empty plain mapping is written as the one
\* token '[]' or '{}' where model(v) meets it first (later references to it
\* are placeholders), a block is opened for the non-empty composites only,
\* and model of an empty value writes that token and no line break.
C7_EmptyFormOnFirstVisit ==
  last.op = "model" =>
    LET R == Reach(heap, Printed)
    IN /\ last.err = "none"
       /\ Count(CallOut, EmptyArray) = Cardinality(Empties(Arrays(R)))
       /\ Count(CallOut, EmptyMapping) = Cardinality(Empties(Mappings(R)))
       /\ Count(CallOut, OpenArray) = Cardinality(Arrays(R) \ Empties(R))
       /\ Count(CallOut, OpenMapping) = Cardinality(Mappings(R) \ Empties(R))
       /\ heap[Printed.id].items = <<>> =>
            /\ TokenText(CallOut)
                 = (IF RootIs("array") = 1 THEN <<"[", "]">> ELSE <<"{", "}">>)
            /\ \A i \in 1..Len(CallOut) : CallOut[i].kind # "brk"

\* an empty mapping inside an array, printed with breakLimit 0
C7_Witness ==
  /\ last.op = "model"
  /\ nops = 1
  /\ opts.breakLimit = 0
  /\ heap[1] = ArrayNode(<<Ref(2)>>)
  /\ heap[2] = PlainObject(<<>>)
  /\ out = << IndentChunk(0, 0), TokChunk(<<"[">>, "none", 0, 1), BreakChunk,
              IndentChunk(2, 1), TokChunk(<<"{", "}">>, "none", 1, 2), BreakChunk,
              IndentChunk(0, 0), TokChunk(<<"]">>, "none", 0, 1) >>

\* C9: after every top-level model call, model(v) or print('%m', v), the
\* visited set holds exactly the composites v reaches, nothing of an earlier
\* call, and each of them was written in full once during the call.
C9_VisitedSetCleared ==
  (IsModelCall /\ last.err = "none" /\ Printed.t = "ref") =>
    LET R == Reach(heap, Printed)
    IN /\ seen = SeenOf(R)
       /\ Count(CallOut, OpenArray) + Count(CallOut, EmptyArray)
            = Cardinality(Arrays(R))
       /\ Count(CallOut, OpenMapping) + Count(CallOut, EmptyMapping)
            = Cardinality(Mappings(R))

\* the value had been visited by the call before, which also left an entry
\* this call does not reach
C9_Witness ==
  /\ IsModelCall
  /\ last.err = "none"
  /\ Printed = Ref(4)
  /\ last.pre.seen[4] # <<>>
  /\ last.pre.seen[3] # <<>>
  /\ seen[3] = <<>>
  /\ Count(CallOut, OpenMapping) = 1

RECURSIVE OneLine(_)
RECURSIVE OneLineItems(_, _)

\* the elements i.. of composite n on one line
OneLineItems(n, i) ==
  LET nd == heap[n]
      item == IF nd.kind = "array"
              THEN OneLine(nd.items[i])
                     \o (IF i < Len(nd.items) THEN <<",">> ELSE <<>>)
              ELSE nd.keys[i] \o <<SP, "=", SP>> \o OneLine(nd.items[i]) \o <<";">>
  IN IF i > Len(nd.items) THEN <<>>
     ELSE item \o (IF i < Len(nd.items) THEN <<SP>> ELSE <<>>)
               \o OneLineItems(n, i + 1)

\* the one-line form of a value that holds no composite twice
OneLine(v) ==
  IF v.t # "ref" THEN v.s
  ELSE IF heap[v.id].kind = "array"
       THEN IF heap[v.id].items = <<>> THEN <<"[", "]">>
            ELSE <<"[">> \o OneLineItems(v.id, 1) \o <<"]">>
       ELSE IF heap[v.id].items = <<>> THEN <<"{", "}">>
            ELSE <<"{", SP>> \o OneLineItems(v.id, 1) \o <<SP, "}">>

\* the column at which the first token of the last call was written
StartColumn ==
  IF last.pre.lineLength = 0
  THEN opts.indentSize * last.pre.block[Len(last.pre.block)].depth
  ELSE last.pre.lineLength

\* C10: a non-empty plain mapping whose text fits in breakLimit is written on
\* one line as '{ ' items ' }', every item 'key = value;', one space between
\* items, nested composites in the same way.
C10_MappingOnOneLine ==
  ( /\ IsModelCall
    /\ Printed.t = "ref"
    /\ heap[Printed.id].kind = "object"
    /\ heap[Printed.id].items # <<>>
    /\ last.pre.block # <<>>
    /\ LET R == Reach(heap, Printed)
       IN /\ \A n \in R : heap[n].ctor \in {"Array", "Object"}
          /\ Cardinality(Edges(R, R)) + 1 = Cardinality(R)
    /\ StartColumn + Len(OneLine(Printed)) <= opts.breakLimit ) =>
    /\ last.err = "none"
    /\ TokenText(CallOut) = OneLine(Printed)
    /\ \A i \in 1..Len(CallOut) : CallOut[i].kind # "brk"
    /\ lineLength = StartColumn + Len(OneLine(Printed))

\* { a: 1, b: { a: [] }, c: 2 } printed in an indented block
C10_Witness ==
  /\ last.op = "model"
  /\ last.err = "none"
  /\ Printed = Ref(3)
  /\ StartColumn > 0
  /\ last.pre.lineLength = 0
  /\ TokenText(CallOut)
       = <<"{", SP, "a", SP, "=", SP, "1", ";", SP,
           "b", SP, "=", SP, "{", SP, "a", SP, "=", SP, "[", "]", ";", SP, "}", ";", SP,
           "c", SP, "=", SP, "2", ";", SP, "}">>


(* ---- layout of composites ------------------------------------------------------ *)

\* all the characters the chunks cs put in the sink
SinkText(cs) == Flatten([i \in 1..Len(cs) |-> cs[i].text])

\* the depth of the block that was current when the last call began
StartDepth == last.pre.block[Len(last.pre.block)].depth

\* the printed value holds no composite twice and only arrays and plain mappings
IsTree(v) ==
  /\ v.t = "ref"
  /\ LET R == Reach(heap, v)
     IN /\ \A n \in R : heap[n].ctor \in {"Array", "Object"}
        /\ Cardinality(Edges(R, R)) + 1 = Cardinality(R)

RECURSIVE Broken(_, _)
RECURSIVE BrokenItems(_, _, _)

\* the elements i.. of composite n, one per line, the lines indented for depth d
BrokenItems(n, i, d) ==
  LET nd == heap[n]
  IN IF i > Len(nd.items) THEN <<>>
     ELSE Spaces(opts.indentSize * d)
          \o (IF nd.kind = "array" THEN <<>> ELSE nd.keys[i] \o <<SP, "=", SP>>)
          \o Broken(nd.items[i], d)
          \o (IF nd.kind = "array" /\ i < Len(nd.items) THEN <<",">> ELSE <<>>)
          \o <<"\n">>
          \o BrokenItems(n, i + 1, d)

\* the layout of value v with every breakable token at the end of a line, v
\* beginning on a line whose indentation is that of depth d
Broken(v, d) ==
  IF v.t # "ref" THEN v.s
  ELSE IF heap[v.id].items = <<>>
       THEN (IF heap[v.id].kind = "array" THEN <<"[", "]">> ELSE <<"{", "}">>)
       ELSE (IF heap[v.id].kind = "array" THEN <<"[">> ELSE <<"{">>)
            \o <<"\n">>
            \o BrokenItems(v.id, 1, d + 1)
            \o Spaces(opts.indentSize * d)
            \o (IF heap[v.id].kind = "array" THEN <<"]">> ELSE <<"}">>)

\* the indentation the first token of the last call received
StartIndent ==
  IF last.pre.lineLength = 0 THEN Spaces(opts.indentSize * StartDepth) ELSE <<>>

\* C11: with breakLimit 0 a non-empty plain mapping is written as '{' at the
\* end of its line, every 'key = value' on a line of its own indented for the
\* depth of the mapping's block and without the ';', and '}' on a line of its
\* own; a nested composite repeats the layout one level deeper.
C11_MappingBroken ==
  ( /\ IsModelCall
    /\ opts.breakLimit = 0
    /\ IsTree(Printed)
    /\ heap[Printed.id].kind = "object"
    /\ heap[Printed.id].items # <<>>
    /\ last.pre.block # <<>> ) =>
    /\ last.err = "none"
    /\ SinkText(CallOut) = StartIndent \o Broken(Printed, StartDepth)
    /\ Count(CallOut, {<<";">>}) = 0
    /\ lineLength = opts.indentSize * StartDepth + 1
    /\ (\A i \in 1..Len(heap[Printed.id].items) : heap[Printed.id].items[i].t # "ref")
         => Cardinality({ i \in 1..Len(CallOut) : CallOut[i].kind = "brk" })
              = Len(heap[Printed.id].items) + 1

\* { a: 1, b: { a: [] }, c: 2 } printed at depth 1 from the start of a line
C11_Witness ==
  /\ last.op = "model"
  /\ last.err = "none"
  /\ opts.breakLimit = 0
  /\ Printed = Ref(3)
  /\ StartDepth = 1
  /\ SinkText(CallOut)
       = <<SP, SP, "{", "\n">>
         \o <<SP, SP, SP, SP, "a", SP, "=", SP, "1", "\n">>
         \o <<SP, SP, SP, SP, "b", SP, "=", SP, "{", "\n">>
         \o <<SP, SP, SP, SP, SP, SP, "a", SP, "=", SP, "[", "]", "\n">>
         \o <<SP, SP, SP, SP, "}", "\n">>
         \o <<SP, SP, SP, SP, "c", SP, "=", SP, "2", "\n">>
         \o <<SP, SP, "}">>

\* the number of elements of the arrays of S beyond the first of each
Separators(S) ==
  Cardinality({ e \in Arrays(S) \X (2..Len(KeyNames)) : e[2] <= Len(heap[e[1]].items) })

\* C12: a non-empty array of n elements is written with n - 1 separators ','
\* and none after the last element: on one line as '[e1, e2, ..., en]' when
\* the text fits in breakLimit, and with breakLimit 0 as '[', one element per
\* line with the ',' at the end of every element line but the last, and ']'.
C12_ArraySeparators ==
  ( /\ last.op = "model"
    /\ IsTree(Printed)
    /\ heap[Printed.id].kind = "array"
    /\ heap[Printed.id].items # <<>> ) =>
    /\ last.err = "none"
    /\ Count(CallOut, {<<",">>}) = Separators(Reach(heap, Printed))
    /\ StartColumn + Len(OneLine(Printed)) <= opts.breakLimit
         => SinkText(CallOut) = StartIndent \o OneLine(Printed)
    /\ opts.breakLimit = 0
         => SinkText(CallOut) = StartIndent \o Broken(Printed, StartDepth)

\* [1, 1, 1] printed with breakLimit 0
C12_Witness ==
  /\ last.op = "model"
  /\ nops = 1
  /\ opts.breakLimit = 0
  /\ heap[1] = ArrayNode(<<One, One, One>>)
  /\ SinkText(CallOut)
       = <<"[", "\n", SP, SP, "1", ",", "\n", SP, SP, "1", ",", "\n",
           SP, SP, "1", "\n", "]">>

\* [1, [1]] printed on one line
C12_WitnessOneLine ==
  /\ last.op = "model"
  /\ opts.breakLimit = DefaultBreakLimit
  /\ heap[1] = ArrayNode(<<One, Ref(2)>>)
  /\ heap[2] = ArrayNode(<<One>>)
  /\ TokenText(CallOut) = <<"[", "1", ",", SP, "[", "1", "]", "]">>


(* ---- tokens through _emit --------------------------------------------------------- *)

\* the texts of the tokens handed to _emit in the present state
EmitTexts == { <<>>, <<"a">>, <<SP>>, <<"a", SP>>, <<SP, "a">>, <<SP, SP>> }

\* plain string tokens, the value undefined among them
PlainTokens == { Str(s) : s \in EmitTexts } \cup {Undef}

\* the chunks printer q holds beyond those of the present state
Written(q) == SubSeq(q.out, Len(out) + 1, Len(q.out))

\* C13: _emit of a plain string token writes no line break, whatever
\* lineLength and breakLimit are, and writes the token's own text (less the
\* spaces trimmed at the start of a line); a print call whose tokens are all
\* plain strings leaves no line break in the sink.
C13_StringNeverBreaks ==
  /\ \A tok \in PlainTokens :
       LET q == _emit(This, tok, "none")
           text == IF tok.tag = "undef" THEN TxUndefined ELSE tok.value
       IN /\ \A i \in 1..Len(Written(q)) : Written(q)[i].kind # "brk"
          /\ q.err = "none" =>
               /\ TokenText(Written(q))
                    = (IF lineLength = 0 THEN trimLeft(text) ELSE text)
               /\ (lineLength > 0 => q.lineLength = lineLength + Len(text))
  /\ (last.op = "print" /\ Len(last.args) = 1) =>
       \A i \in 1..Len(CallOut) : CallOut[i].kind # "brk"

\* print('a') with breakLimit 0 on a line that already had content
C13_Witness ==
  /\ last.op = "print"
  /\ last.args = <<StrV(<<"a">>)>>
  /\ last.err = "none"
  /\ opts.breakLimit = 0
  /\ last.pre.lineLength > 0
  /\ CallOut = <<TokChunk(<<"a">>, "none", StartDepth, 1)>>
  /\ lineLength = last.pre.lineLength + 1


\* tokens that can resolve to the empty string
EmptyingTokens == { Str(<<>>), Obj(<<>>), ObjB(<<";">>, <<>>), Obj(<<SP>>) }

\* toBreak of _emit for token tok in the present state
ToBreak(tok) ==
  tok.tag = "obj" /\ lineLength + Len(tok.value) >= opts.breakLimit

\* the string _emit tests for emptiness, for token tok in the present state
Resolved(tok) ==
  IF ToBreak(tok)
  THEN trimRight(IF tok.hasBreak THEN tok.breakValue ELSE tok.value)
  ELSE tok.value

\* C14 as stated: a token that resolves to the empty string writes nothing
\* to the sink, no line break either.
C14_EmptyWritesNothing ==
  \A tok \in EmptyingTokens :
    Resolved(tok) = <<>> => Written(_emit(This, tok, "none")) = <<>>

\* C14 amended: a token that resolves to the empty string writes neither
\* indentation nor text; a plain string token leaves the printer as it was,
\* and a tagged token that reached breakLimit still ends the line: one line
\* break is written exactly when the line has content.
C14_EmptyWritesNoText ==
  \A tok \in EmptyingTokens :
    Resolved(tok) = <<>> =>
      LET q == _emit(This, tok, "none")
      IN /\ q.err = "none"
         /\ q.block = block
         /\ q.seen = seen
         /\ IF ToBreak(tok) /\ lineLength > 0
            THEN Written(q) = <<BreakChunk>> /\ q.lineLength = 0
            ELSE Written(q) = <<>> /\ q.lineLength = lineLength

\* { a: [] } printed with breakLimit 0: the terminator after '[]' resolved
\* to '' and the line was ended
C14_Witness ==
  /\ last.op = "model"
  /\ last.err = "none"
  /\ opts.breakLimit = 0
  /\ Printed = Ref(4)
  /\ \E i \in 1..(Len(CallOut) - 1) :
       /\ CallOut[i].kind = "tok"
       /\ CallOut[i].text = <<"[", "]">>
       /\ CallOut[i + 1] = BreakChunk
  /\ Count(CallOut, {<<";">>}) = 0
  /\ lineLength > 0
  /\ Resolved(ObjB(<<";">>, <<>>)) = <<>>


\* tagged tokens of the block descriptors: separator, terminator, opener and
\* afterLast
BreakingTokens ==
  { Obj(<<",">>), ObjB(<<";">>, <<>>), Obj(<<"{", SP>>), Obj(<<>>) }

\* printer q has just written a line break that the present state had not
BreakWritten(q) ==
  /\ q.err = "none"
  /\ Len(q.out) > Len(out)
  /\ q.out[Len(q.out)] = BreakChunk

RECURSIVE EndsWithSpace(_, _)
\* the token text of the line that holds chunk i of cs ends with a space,
\* chunk i being the last of the line
EndsWithSpace(cs, i) ==
  IF i = 0 \/ cs[i].kind # "tok" THEN FALSE
  ELSE IF cs[i].text = <<>> THEN EndsWithSpace(cs, i - 1)
  ELSE cs[i].text[Len(cs[i].text)] = SP

\* C15 (first half): the text written immediately before a line break forced
\* by _emit does not end with a space.
C15_NoSpaceBeforeBreak ==
  \A T \in BreakingTokens :
    LET q == _emit(This, T, "none")
    IN (ToBreak(T) /\ BreakWritten(q)) => ~EndsWithSpace(q.out, Len(q.out) - 1)

\* C15 (second half): on the line that follows a break forced by _emit the
\* text after the indentation does not start with a space.
C15_NoSpaceAfterBreak ==
  \A T \in BreakingTokens :
    LET q == _emit(This, T, "none")
    IN (ToBreak(T) /\ BreakWritten(q)) =>
         \A t1, t2 \in EmitTexts :
           LET r == _emit(_emit(q, Str(t1), "none"), Str(t2), "none")
               text == TokenText(SubSeq(r.out, Len(q.out) + 1, Len(r.out)))
           IN (r.err = "none" /\ text # <<>>) => text[1] # SP

\* C15: a break forced by _emit leaves no whitespace at the seam, neither at
\* the end of the line it ends nor after the indentation of the line it
\* starts.
C15_NoSpaceAtSeam == C15_NoSpaceBeforeBreak /\ C15_NoSpaceAfterBreak


(* ---- styling ------------------------------------------------------------------------ *)

\* the public call name(args) made on printer p
Apply(name, args, p) ==
  CASE name = "print" -> print(p, args)
    [] name = "println" -> println(p, args)
    [] name = "br" -> br(p)
    [] name = "rule" -> rule(p, "-")
    [] name = "model" -> model(p, args[1])
    [] name = "indent" -> indent(p)
    [] name = "unindent" -> unindent(p)

\* the printer before the last call, with the other value of options.colors
OtherColors ==
  [out |-> last.pre.out, lineLength |-> last.pre.lineLength,
   block |-> last.pre.block, seen |-> last.pre.seen,
   colors |-> ~opts.colors, err |-> "none", stack |-> 0,
   sink |-> last.pre.sink]

\* the chunks cs without their styles
Plain(cs) == [i \in 1..Len(cs) |-> [cs[i] EXCEPT !.style = "none"]]

\* printer q is laid out as the present state is
SameLayout(q) ==
  /\ q.err = last.err
  /\ q.lineLength = lineLength
  /\ q.block = block
  /\ q.seen = seen
  /\ Plain(q.out) = Plain(out)

\* C16: the last call, made again from the same printer with the other value
\* of the colors option, gives the same lineLength, the same blocks and the
\* same chunks and line breaks in the sink, the styles of the chunks apart.
C16_StyleBlind ==
  last.op # "new" => SameLayout(Apply(last.op, last.args, OtherColors))

\* the other printer writes chunk i as the present state holds it, the style apart
Unstyled(q, i) == q.out[i].style = "none" /\ q.out[i].text = out[i].text

\* { a: 1, b: { a: [] }, c: 2 } printed with colors and breakLimit 6: lines
\* were broken and a styled chunk is unstyled in the other printer
C16_Witness ==
  /\ last.op = "model"
  /\ last.err = "none"
  /\ Printed = Ref(3)
  /\ opts.colors
  /\ opts.breakLimit = 6
  /\ \E i \in 1..Len(CallOut) : CallOut[i].kind = "brk"
  /\ \E i \in (Len(last.pre.out) + 1)..Len(out) :
       /\ out[i].style = "cyan"
       /\ Unstyled(Apply(last.op, last.args, OtherColors), i)


(* ---- print and println ---------------------------------------------------------------- *)

\* the text a placeholder of the given code stands for with argument arg
Rendered(code, arg) ==
  CASE code = "d" -> NumberString(arg)
    [] code = "s" -> String(arg, {})
    [] code = "m" -> OneLine(arg)

RECURSIVE RestText(_, _)
\* the arguments from the i-th on, a space before each
RestText(args, i) ==
  IF i > Len(args) THEN <<>>
  ELSE <<SP>> \o String(args[i], {}) \o RestText(args, i + 1)

RECURSIVE Formatted(_, _, _, _)
\* fmt from position pos on, formatted with the arguments from the i-th on,
\* and the arguments no placeholder consumed after it: '%%' stands for '%',
\* a placeholder %d, %s or %m for the next argument, and any other text,
\* a placeholder without an argument included, for itself
Formatted(fmt, pos, args, i) ==
  IF pos > Len(fmt) THEN RestText(args, i)
  ELSE IF fmt[pos] = "%" /\ pos < Len(fmt)
  THEN IF fmt[pos + 1] = "%"
       THEN <<"%">> \o Formatted(fmt, pos + 2, args, i)
       ELSE IF fmt[pos + 1] \in {"d", "s", "m"} /\ i <= Len(args)
       THEN Rendered(fmt[pos + 1], args[i]) \o Formatted(fmt, pos + 2, args, i + 1)
       ELSE <<"%", fmt[pos + 1]>> \o Formatted(fmt, pos + 2, args, i)
  ELSE <<fmt[pos]>> \o Formatted(fmt, pos + 1, args, i)

\* what print(...args) is to write: the formatted text and the remaining
\* arguments when the first argument is a string, else all the arguments
PrintText(args) ==
  IF args = <<>> THEN <<>>
  ELSE IF args[1].t = "str" THEN Formatted(args[1].s, 1, args, 2)
  ELSE String(args[1], {}) \o RestText(args, 2)

\* the text of the first token of a line loses its leading spaces
AtLineStart(text) == IF last.pre.lineLength = 0 THEN trimLeft(text) ELSE text

\* fmt holds a '%' followed by a character that is no placeholder code
HasUnknownCode(args) ==
  /\ args # <<>>
  /\ args[1].t = "str"
  /\ \E i \in 1..(Len(args[1].s) - 1) :
       /\ args[1].s[i] = "%"
       /\ args[1].s[i + 1] \notin {"d", "s", "m", "%"}
       /\ (i = 1 \/ args[1].s[i - 1] # "%")

\* C17: print(fmt, ...args) gives each placeholder one argument, in order,
\* and writes every argument no placeholder consumed after the formatted
\* text, in order, a single space before each; when fmt is not a string all
\* the arguments are written this way.
C17_RemainingArgsPrinted ==
  last.op = "print" =>
    /\ last.err = "none"
    /\ TokenText(CallOut) = AtLineStart(PrintText(last.args))

\* C18: a placeholder %d, %s or %m for which no argument remains is written
\* as it stands, and '%%' writes one '%' and consumes no argument.
C18_VerbatimAndPercent ==
  (last.op = "print" /\ ~HasUnknownCode(last.args)) =>
    /\ last.err = "none"
    /\ TokenText(CallOut) = AtLineStart(PrintText(last.args))
    /\ \A i \in 1..Len(CallOut) : CallOut[i].kind # "brk"

\* print('a%%%d') wrote 'a%%d' and print('%%', 1) before it wrote '% 1'
C18_Witness ==
  /\ last.op = "print"
  /\ last.err = "none"
  /\ last.args = <<StrV(<<"a", "%", "%", "%", "d">>)>>
  /\ TokenText(CallOut) = <<"a", "%", "%", "d">>
  /\ TokenText(last.pre.out) = <<"%", SP, "1">>

\* the printer before the last call
Before ==
  [out |-> last.pre.out, lineLength |-> last.pre.lineLength,
   block |-> last.pre.block, seen |-> last.pre.seen,
   colors |-> opts.colors, err |-> "none", stack |-> 0,
   sink |-> last.pre.sink]

\* C19: println(...args) writes what print(...args) writes from the same
\* printer and then one line break, whatever the line holds, and leaves
\* lineLength at 0, so that br() after it writes nothing.
C19_PrintlnBreaks ==
  last.op = "println" =>
    /\ last.err = "none"
    /\ out = print(Before, last.args).out \o <<BreakChunk>>
    /\ lineLength = 0
    /\ Written(br(This)) = <<>>

\* the second println() in a row on an empty line: two line breaks
C19_Witness ==
  /\ last.op = "println"
  /\ last.args = <<>>
  /\ last.run = 2
  /\ last.runPre.lineLength = 0
  /\ out = last.runPre.out \o <<BreakChunk, BreakChunk>>


(* ---- rule ------------------------------------------------------------------------- *)

\* the columns the line had left when the last call began
Remained == opts.breakLimit - last.pre.lineLength

\* the last call wrote n copies of '-' and a line break after them
RuleWritten(n) ==
  /\ Len(CallOut) >= 2
  /\ out[Len(out)] = BreakChunk
  /\ out[Len(out) - 1].kind = "tok"
  /\ out[Len(out) - 1].text = [i \in 1..n |-> "-"]
  /\ \A i \in 1..(Len(CallOut) - 2) : CallOut[i].kind = "ind"

\* rule() writes max(8, breakLimit - lineLength) copies of chr and a break
C20_RuleLength ==
  (last.op = "rule" /\ last.err = "none") =>
    RuleWritten(IF Remained < MinRuleLength THEN MinRuleLength ELSE Remained)

\* the line of the rule, indentation included, is breakLimit columns long
\* when at least 8 columns remained
C20_RuleLine ==
  (last.op = "rule" /\ last.err = "none" /\ Remained >= MinRuleLength) =>
    Width(StartOf(Len(out) - 1), Len(out) - 1) = opts.breakLimit

\* C20: rule(chr) writes max(8, breakLimit - lineLength) copies of chr and a
\* soft break, and at every depth and whatever the line holds the line of
\* the rule, indentation included, is breakLimit columns long when at least
\* 8 columns remained; the rule is 8 characters long otherwise.
C20_RuleFillsLine == C20_RuleLength /\ C20_RuleLine


(* ---- chaining ----------------------------------------------------------------------- *)

\* C21: every public call returns the printer it was made on, in every
\* reachable state: print, println, br, rule, model, indent and unindent of
\* src/lib/index.js, and text, format, br, ln, rule, model, indent and
\* unindent of the older variant, unindent() at depth 0 included.
C21_Chainable ==
  /\ last.op # "new" => last.err = "none"
  /\ oldLast.op # "new" => oldLast.ret = "this"


(* ---- values ------------------------------------------------------------------------- *)

\* C22: model(v) never throws: for every value, undefined, null, the
\* primitives, functions with and without a name, arrays, mappings with and
\* without members, of any constructor or of none, the call completes and
\* writes a rendering of v.
C22_ModelNeverThrows ==
  last.op = "model" =>
    /\ last.err = "none"
    /\ TokenText(CallOut) # <<>>


(* ---- failures of the sink ----------------------------------------------------------- *)

\* the last call ended as f, the same call on a sink that never fails, as
\* long as the sink accepted the chunks; from the first chunk it refused the
\* call threw and wrote no more
FailedWhereSinkDid(f) ==
  IF Len(f.out) - Len(last.pre.out) > last.pre.sink.after
  THEN /\ last.err = "SinkError"
       /\ out = SubSeq(f.out, 1, Len(last.pre.out) + last.pre.sink.after)
       /\ sink.after = 0
  ELSE /\ last.err = f.err
       /\ out = f.out

\* C23: a failure of the write of the sink is not caught: the public call
\* during which it happens throws it, nothing is written after it and what
\* the sink received before it stays.
C23_SinkFailurePropagates ==
  (last.op # "new" /\ last.pre.sink.fails) =>
    /\ SubSeq(out, 1, Len(last.pre.out)) = last.pre.out
    /\ FailedWhereSinkDid(Apply(last.op, last.args,
                                [Before EXCEPT !.sink = Reliable]))

\* model threw the failure of the sink after it wrote part of the value, on
\* a line that a call before it began
C23_Witness ==
  /\ last.op = "model"
  /\ last.err = "SinkError"
  /\ last.pre.out # <<>>
  /\ Len(CallOut) >= 2
  /\ sink.after = 0


(* ---- the older variant: lines --------------------------------------------------------------- *)

\* the characters the last call on the older printer wrote
OldOut == SubSeq(old.out, Len(oldLast.pre.out) + 1, Len(old.out))

\* the last line of text cs has characters on it
LineHasContent(cs) == cs # <<>> /\ cs[Len(cs)] # NL

\* str on a line of its own after the text cs: a break first when the last
\* line of cs has content, the indentation of depth d, str and one break
OwnLine(cs, d, str) ==
  (IF LineHasContent(cs) THEN <<NL>> ELSE <<>>)
    \o repeat(IndentPattern, d) \o str \o <<NL>>

\* C24: in the older variant ln() writes one line break, on an empty line as
\* well, so n calls of ln() in a row write n breaks; ln(str) with a str that
\* is not empty puts str on a line of its own: a soft break when the line
\* has content, then str, then one line break.
C24_LnStandalone ==
  oldLast.op = "ln" =>
    /\ oldLast.ret = "this"
    /\ oldLast.args[1] = <<>> => OldOut = <<NL>>
    /\ oldLast.args[1] # <<>> =>
         OldOut = OwnLine(oldLast.pre.out, oldLast.pre.indentDepth, oldLast.args[1])


(* ---- the older variant: indentation ------------------------------------------------------- *)

RECURSIVE SkipSpaces(_, _)
\* the first position from j on in text cs that holds no space
SkipSpaces(cs, j) ==
  IF j <= Len(cs) /\ cs[j] = SP THEN SkipSpaces(cs, j + 1) ELSE j

\* position i of text cs is the first of a line
LineStart(cs, i) == i = 1 \/ cs[i - 1] = NL

\* the line of text cs that begins at i has text on it
HasText(cs, i) ==
  SkipSpaces(cs, i) <= Len(cs) /\ cs[SkipSpaces(cs, i)] # NL

\* the line of text cs that begins at i is ended and holds spaces only
BlankIndented(cs, i) ==
  /\ cs[i] = SP
  /\ SkipSpaces(cs, i) <= Len(cs)
  /\ cs[SkipSpaces(cs, i)] = NL

\* the positions of the text written so far at which the last call began a line
LinesBegun ==
  { i \in (Len(oldLast.pre.out) + 1)..Len(old.out) : LineStart(old.out, i) }

\* C25: in the older variant every line of the output that has text on it
\* begins with indentPattern repeated indentDepth times, the depth being
\* that of the moment its first character is printed, and a line without
\* text is not indented, whatever breakLength is, the lines begun by a break
\* that _flush forces included.
C25_LinesIndented ==
  /\ \A i \in LinesBegun :
       HasText(old.out, i) =>
         SkipSpaces(old.out, i) - i = Len(IndentPattern) * oldLast.pre.indentDepth
  /\ \A i \in 1..Len(old.out) :
       LineStart(old.out, i) => ~BlankIndented(old.out, i)


(* ---- the older variant: compact mode --------------------------------------------------------- *)

\* the line of the older printer before the last call was longer than
\* opts.breakLength
WasTooLong ==
  oldLast.pre.breakLength.def /\ oldLast.pre.lineLength > oldLast.pre.breakLength.n

\* C26: in the older variant with opts.compact set br() writes a line break
\* only if the line would grow longer than opts.breakLength, and writes
\* nothing otherwise.
C26_CompactBr ==
  (oldLast.op = "br" /\ oldLast.pre.compact /\ ~WasTooLong) => OldOut = <<>>


(* ---- the chain of blocks -------------------------------------------------------------------- *)

\* the chain bs without its last block
Parent(bs) == SubSeq(bs, 1, Len(bs) - 1)

\* C27: in every reachable state the open blocks are a chain from the
\* current block to the root block, which has no parent, and the depth of
\* each block is the depth of its parent plus one; _startBlock pushes one
\* block and the _endBlock that matches it makes the parent current again.
C27_BlockChain ==
  /\ block # <<>>
  /\ block[1].open = Undef /\ block[1].close = Undef
  /\ \A i \in 2..Len(block) : block[i].depth = block[i - 1].depth + 1
  /\ (last.op = "indent" /\ last.err = "none") =>
       Len(block) = Len(last.pre.block) + 1 /\ Parent(block) = last.pre.block
  /\ (last.op = "unindent" /\ last.err = "none") =>
       block = Parent(last.pre.block)

\* C28: unindent() when only the root block is open writes nothing, keeps
\* the root block current, so that the depth never drops below the depth
\* the printer was built with, and leaves the printer able to emit tokens.
C28_UnindentAtRoot ==
  (last.op = "unindent" /\ Len(last.pre.block) = 1) =>
    /\ last.err = "none"
    /\ CallOut = <<>>
    /\ block = last.pre.block
    /\ _emit(This, Str(<<"a">>), "none").err = "none"


(* ---- the tokens that open and close a block ------------------------------------------------- *)

\* chunk i is the token that opens the block of an array or a mapping
Opens(i) == out[i].kind = "tok" /\ out[i].text \in {<<"[">>, <<"{">>, <<"{", SP>>}

\* chunk j is the token that closes the block of an array or a mapping
Closes(j) == out[j].kind = "tok" /\ out[j].text \in {<<"]">>, <<"}">>, <<SP, "}">>}

RECURSIVE Opener(_, _)
\* the opening token that the closing token looked for is paired with: the
\* search is at chunk i and has k closing tokens to pair before it; 0 if none
Opener(i, k) ==
  IF i = 0 THEN 0
  ELSE IF Closes(i) THEN Opener(i - 1, k + 1)
  ELSE IF Opens(i) THEN (IF k = 0 THEN i ELSE Opener(i - 1, k - 1))
  ELSE Opener(i - 1, k)

\* the closing tokens that start a line, each after its indentation
ClosersAtLineStart ==
  { j \in 2..Len(out) : Closes(j) /\ out[j - 1].kind = "ind" /\ Opener(j - 1, 0) > 0 }

\* the indentation of the line that holds chunk i
Indentation(i) ==
  IF out[StartOf(i)].kind = "ind" THEN Len(out[StartOf(i)].text) ELSE 0

\* the closing token j and the opening token i of one block
LaidOutAtParent(i, j) ==
  /\ out[j].depth = out[i].depth
  /\ \A m \in (i + 1)..(j - 1) : out[m].kind = "tok" => out[m].depth > out[i].depth
  /\ out[j - 1].kind = "ind" =>
       /\ Len(out[j - 1].text) = opts.indentSize * out[i].depth
       /\ out[StartOf(i)].depth = out[i].depth => Len(out[j - 1].text) = Indentation(i)

\* C29 as stated: a closing token that starts a line has the indentation of
\* the line that holds the opening token of its block.
C29_CloseAlignsWithOpenLine ==
  \A j \in ClosersAtLineStart : Len(out[j - 1].text) = Indentation(Opener(j - 1, 0))

\* C29: the opening and the closing token of a block are emitted at the depth
\* of the parent and the items between them deeper; a closing token that
\* starts a line is indented by indentSize x the depth of the parent, which
\* is the indentation of the line that holds the opening token when that
\* line was begun at the depth of the parent.
C29_CloseAtParentDepth ==
  \A j \in 2..Len(out) :
    (Closes(j) /\ Opener(j - 1, 0) > 0) => LaidOutAtParent(Opener(j - 1, 0), j)

\* a closing token starts a line two columns in, as the line of its opening
\* token does
C29_Witness ==
  /\ last.op = "model"
  /\ last.err = "none"
  /\ \E j \in ClosersAtLineStart :
       /\ j > Len(last.pre.out)
       /\ Len(out[j - 1].text) = opts.indentSize
       /\ Indentation(Opener(j - 1, 0)) = opts.indentSize
       /\ out[StartOf(Opener(j - 1, 0))].depth = out[j].depth


(* ---- identity in the visited set ------------------------------------------------------------ *)

\* the text of a placeholder
Placeholders == {TxCircArray, TxCircObject}

\* C30: the visited set is keyed by identity and holds arrays and mappings
\* only: a value in which no composite occurs twice is rendered in full,
\* without a placeholder, also when it holds distinct composites with equal
\* contents, or a primitive or a function several times.
C30_IdentityKeyed ==
  (last.op = "model" /\ last.err = "none" /\ IsTree(last.args[1])) =>
    /\ Count(CallOut, Placeholders) = 0
    /\ \A n \in 1..Len(heap) : seen[n] # <<>> <=> n \in Reach(heap, last.args[1])
    /\ opts.breakLimit = DefaultBreakLimit =>
         TokenText(CallOut) = OneLine(last.args[1])

\* [1, 1, f, f] was printed in full after [{ a = 1; }, { a = 1; }] was
C30_Witness ==
  /\ last.op = "model"
  /\ last.err = "none"
  /\ last.args = <<Ref(7)>>
  /\ TokenText(CallOut) = <<"[", "1", ",", SP, "1", ",", SP, "f", ",", SP, "f", "]">>
  /\ TokenText(last.pre.out)
       = <<"[", "{", SP, "a", SP, "=", SP, "1", ";", SP, "}", ",", SP,
           "{", SP, "a", SP, "=", SP, "1", ";", SP, "}", "]">>


(* ---- the break test ------------------------------------------------------------------------- *)

\* the formatter objects given to _emit
TaggedTokens ==
  { Obj(<<",">>), Obj(<<"{", SP>>), ObjB(<<";">>, <<>>), Obj(<<"a", "b", "c">>) }

\* printer q, reached by one token from the present state, ended the line:
\* the line is empty again, and a line break is the last chunk written
\* unless the line was empty and the token wrote no text (br() on an empty
\* line writes nothing)
EndedLine(q) ==
  /\ q.lineLength = 0
  /\ (lineLength # 0 \/ Written(q) # <<>>)
       => /\ Written(q) # <<>>
          /\ Written(q)[Len(Written(q))] = BreakChunk
          /\ \A i \in 1..(Len(Written(q)) - 1) : Written(q)[i].kind # "brk"

\* printer q, reached by one token from the present state, wrote no break
NoBreak(q) == \A i \in 1..Len(Written(q)) : Written(q)[i].kind # "brk"

\* the outcome of one formatter object given to _emit, which only fails
\* where no block is current
Broke(q, reached) ==
  IF q.err # "none" THEN ~HasBlock(This) /\ NoBreak(q)
  ELSE IF reached THEN EndedLine(q)
  ELSE NoBreak(q) /\ q.lineLength >= lineLength

\* C31: a formatter object breaks the line exactly when lineLength before
\* it plus the length of its value is at least breakLimit, lineLength being
\* 0 for the first token of a line whatever the indentation to come; a
\* token that fills the line to breakLimit exactly breaks, and every
\* formatter object breaks when breakLimit is 0.
C31_BreakAtLimit ==
  \A tok \in TaggedTokens :
    Broke(_emit(This, tok, "none"),
          lineLength + Len(tok.value) >= opts.breakLimit)

\* at the start of a line at depth 1 a token of one character is far from
\* a limit of 6 although the indentation brings the line nearer to it
C31_IndentNotCounted ==
  /\ opts.breakLimit = 6
  /\ lineLength = 0
  /\ HasBlock(This)
  /\ CurDepth(This) = 1
  /\ NoBreak(_emit(This, Obj(<<"a", "b", "c">>), "none"))
  /\ _emit(This, Obj(<<"a", "b", "c">>), "none").lineLength = 5
\* at column 4 of 6 the token ',' stays on the line and the token '{ ',
\* which fills the line, breaks it; at the start of a line at depth 1 the
\* indentation to come is not counted
C31_Witness ==
  /\ opts.breakLimit = 6
  /\ lineLength = 4
  /\ HasBlock(This)
  /\ NoBreak(_emit(This, Obj(<<",">>), "none"))
  /\ EndedLine(_emit(This, Obj(<<"{", SP>>), "none"))
  /\ Written(_emit(This, Obj(<<"{", SP>>), "none")) # <<>>


(* ---- the older variant: br() ---------------------------------------------------------------- *)

\* C32: in the older variant, whatever breakLength is, br() writes exactly
\* one line break when text was written on the current line of the output
\* since the last line break and writes nothing otherwise, so that br()
\* calls in a row write one break, and lineLength is not zero exactly when
\* the current line of the output has content.
C32_BrEndsWrittenLine ==
  /\ oldLast.op = "br" =>
       /\ oldLast.ret = "this"
       /\ OldOut = (IF LineHasContent(oldLast.pre.out) THEN <<NL>> ELSE <<>>)
  /\ (old.lineLength # 0) <=> LineHasContent(old.out)


(* ---- the length of the line ------------------------------------------------------------------ *)

\* the plain characters in the sink after the last line break written
LineWidth == Width(StartOf(Len(out) + 1), Len(out))

\* C33: after any sequence of print, println, br, rule, model, indent and
\* unindent calls whose tokens hold no line break, lineLength is the number
\* of plain characters, indentation included and style codes left out,
\* written to the sink since the last line break the printer wrote, and it
\* is 0 right after every such break.
C33_LineLengthIsWidth ==
  /\ lineLength = LineWidth
  /\ (out # <<>> /\ out[Len(out)].kind = "brk") => lineLength = 0

\* a styled value printed at depth 1 on a line of its own: two spaces of
\* indentation and the characters of the value, and a break written before
\* them
C33_Witness ==
  /\ last.op \in {"model", "print"}
  /\ last.err = "none"
  /\ CallOut # <<>>
  /\ \E i \in 1..Len(out) : out[i].kind = "brk"
  /\ \E i \in 1..Len(out) : out[i].kind = "tok" /\ out[i].style # "none"
  /\ out[StartOf(Len(out) + 1)].kind = "ind"
  /\ out[StartOf(Len(out) + 1)].text = Spaces(2)
  /\ lineLength > 2
  /\ lineLength = LineWidth


(* ---- the blocks around a value ------------------------------------------------------------ *)

\* C34: model(v) returns with the chain of blocks as it was on entry, the
\* same current block at the same depth, for every value v, cyclic, shared
\* and empty composites included, so that text printed after the call is
\* indented as it would have been before it.
C34_ModelKeepsBlocks ==
  (last.op = "model" /\ last.err = "none") =>
    /\ block = last.pre.block
    /\ HasBlock(This) =>
         emitIndented(This, <<"a">>, opts.indentSize * CurDepth(This), "none", 1).out
           = Append(out, IndentChunk(opts.indentSize * StartDepth, StartDepth))
               \o <<TokChunk(<<"a">>, "none", StartDepth, 1)>>

\* the array that holds itself printed after indent(): blocks were opened
\* and closed, and the indent block is current again
C34_Witness ==
  /\ last.op = "model"
  /\ last.args = <<Ref(5)>>
  /\ last.err = "none"
  /\ Len(last.pre.block) = 2
  /\ Count(CallOut, {<<"[">>}) = 1
  /\ Count(CallOut, {<<"]">>}) = 1
  /\ block = last.pre.block


(* ---- the end of print ------------------------------------------------------------------------ *)

\* a pass through the for loop of print moved on in fmt or took an argument,
\* and went past neither the end of fmt nor the last argument
ScanAdvances ==
  (last.phase = "scan" /\ last'.phase = "scan") =>
    /\ last'.pos > last.pos \/ last'.index > last.index
    /\ last'.pos >= last.pos /\ last'.index >= last.index
    /\ last'.pos <= Len(last.args[1].s)
    /\ last'.index <= Len(last.args)

\* the printer is where print(...args), taken as a whole, leaves it
PrintDone(q) ==
  /\ last.err = q.err
  /\ out = q.out
  /\ lineLength = q.lineLength
  /\ block = q.block

\* C35: print(fmt, ...args) comes to an end for every format string and
\* every argument list, a '%' followed by a character other than d, s, m
\* or % with arguments still to take included: every pass through the scan
\* moves on in fmt or takes an argument.
C35_PrintTerminates ==
  /\ [][ScanAdvances]_vars
  /\ <>(last.phase = "done")
  /\ [](last.phase = "done" => PrintDone(print(Before, last.args)))

\* print('%x%y', 1, 2) has returned: both arguments were taken by the
\* passes over '%x' and the text was written as it stands
C35_Witness ==
  /\ last.phase = "done"
  /\ last.err = "none"
  /\ last.args = <<StrV(<<"%", "x", "%", "y">>), One, Two>>
  /\ last.index = 3
  /\ last.pos = 4
  /\ TokenText(out) = <<"%", "x", "%", "y">>


(* ---- a sink that fails inside a block -------------------------------------------------------- *)

\* C36: if the sink throws while model(v) is inside one or more open
\* blocks, the current block after the exception is the block that was
\* current before the call, so that a later print on the same printer is
\* not indented by the depth of the call that was cut short.
C36_BlockRestoredOnThrow ==
  (last.op = "model" /\ last.err = "SinkError") => block = last.pre.block


====
